---------------------------- MODULE Spec2Model ----------------------------
(***************************************************************************)
(* A model of the synchronization engine of wesm/argh (GIRD):             *)
(*   - internal/api/github.go   : handleRateLimit, executeWithRetry,       *)
(*                                GetIssues, GetIssueComments              *)
(*   - internal/sync/sync.go    : SyncRepository, processIssue             *)
(*   - internal/db/db.go        : the upserts and the checkpoint           *)
(*                                                                         *)
(* Two specifications share the module:                                    *)
(*   SpecRetry : one call of GitHubClient.executeWithRetry                 *)
(*   Spec      : passes of Syncer.SyncRepository over one store            *)
(***************************************************************************)
EXTENDS Integers, Sequences, FiniteSets, TLC

VARIABLES
    \* ---- executeWithRetry (github.go 263-317) ----
    retryPc,        \* position in executeWithRetry
    retryCount,     \* the local retryCount
    waitTime,       \* the local waitTime of the last rate-limited attempt (s)
    lastErr,        \* what fn() returned last (after handleRateLimit)
    lastCall,       \* the raw outcome handed to handleRateLimit last
    retryErr,       \* the value executeWithRetry returned
    attempts,       \* number of invocations of fn() in this call
    waits,          \* number of completed waits in this call
    clock,          \* wall clock in seconds (time.Now())
    retryCtxDone,   \* ctx.Err() != nil for the context of this call
    \* ---- the environment of SyncRepository ----
    now,            \* the latest instant a clock showed (instants 1, 2, ...)
    remoteUpdated,  \* updated_at of every remote issue
    ctxDone,        \* the ambient context of the process is cancelled
    workers,        \* Syncer.workers, as given to NewSyncer
    \* ---- the store: one variable per table of db.go 33-94 ----
    tblRepositories, tblUsers, tblIssues, tblComments, tblLabels,
    tblIssueLabels, tblSyncMetadata,
    \* ---- SyncRepository (sync.go 47-230), the coordinating goroutine ----
    coordPc,        \* position in SyncRepository
    lastSyncTime,   \* the local lastSyncTime
    issues,         \* the local issues: the changed-set, as fetched
    sendIdx,        \* next index of issues to send to issuesChan
    errorCount,     \* the local errorCount
    result,         \* the error SyncRepository returned
    issuesChan, issuesClosed,       \* chan *github.Issue, cap totalIssues
    errorsChan, errorsClosed,       \* chan error, cap totalIssues
    rateLimitChan, rateLimitClosed, \* chan time.Time, cap s.workers
    processed,      \* the progress counter under progressMutex
    \* ---- the worker goroutines (sync.go 119-174) and processIssue ----
    wPc,            \* position of each worker
    wIssue,         \* ghIssue of each worker
    wIdx,           \* index in the label / comment loop of processIssue
    wErr,           \* err returned by processIssue
    \* ---- the rate-limit monitor goroutine (sync.go 177-195) ----
    monPc,          \* position of the monitor
    monWake,        \* instant at which its time.Sleep returns (0: not asleep)
    \* ---- history of the current pass, read by the properties only ----
    passNo,         \* number of passes started
    passStart,      \* instant at which the pass started
    joinedAt,       \* instant at which wg.Wait returned (0: not yet)
    ckptWrites,     \* executions of UpdateLastSyncTime in the pass
    faults,         \* failures injected in the pass (remote and store)
    events,         \* injected failures, remote edits and cancellations so far
    started,        \* issues for which processIssue was called
    completed,      \* issues for which processIssue returned nil
    savedIssues,    \* issues whose row SaveIssue wrote in the pass
    tablesChanged,  \* a statement of the pass changed a table other than sync_metadata
    remoteChanged,  \* the remote changed since the pass started
    prevStable,     \* the previous pass was clean and the remote did not change during it
    everFailed,     \* some pass so far met a failure or a cancellation
    fetchFailed,    \* issues whose GetIssueComments returned an error in the pass
    commentSteps,   \* issues for which a comment or comment-author statement ran in the pass
    \* ---- one store operation applied to a store state (db.go) ----
    opName,         \* the operation applied last ("none": none yet)
    opArg,          \* its argument, as <<id, login, avatar>> or <<id, name, color>>
    opErr,          \* it returned an error
    opId,           \* the id it returned (SaveLabel)
    \* ---- one paged fetch, observed alone (github.go 352-442, 746-955) ----
    pgName,         \* the function that runs ("none": none)
    pgRemote,       \* the number of items of the remote list (items 1..n)
    pgSize,         \* the page size asked for
    pgPage,         \* opts.Page, or the cursor: the last item the page before held
    pgAll,          \* the items collected so far
    pgMore,         \* allComments of fetchAdditionalComments
    pgReqs,         \* requests made so far
    pgPc,           \* position in the function
    pgErr,          \* the function returned an error
    pgWarned        \* a failure was logged and not returned

retryVars == <<retryPc, retryCount, waitTime, lastErr, lastCall, retryErr,
               attempts, waits, clock, retryCtxDone>>

otherEnv == <<remoteUpdated, ctxDone, workers>>

envVars == <<now, otherEnv>>

storeVars == <<tblRepositories, tblUsers, tblIssues, tblComments, tblLabels,
               tblIssueLabels, tblSyncMetadata>>

coordVars == <<coordPc, lastSyncTime, issues, sendIdx, errorCount, result>>

chanVars == <<issuesChan, issuesClosed, errorsChan, errorsClosed,
              rateLimitChan, rateLimitClosed, processed>>

workerVars == <<wPc, wIssue, wIdx, wErr>>

monVars == <<monPc, monWake>>

histVars == <<passNo, passStart, joinedAt, ckptWrites, faults, events, started,
              completed, savedIssues, tablesChanged, remoteChanged,
              prevStable, everFailed, fetchFailed, commentSteps>>

passVars == <<envVars, storeVars, coordVars, chanVars, workerVars, monVars, histVars>>

opVars == <<opName, opArg, opErr, opId>>

pageVars == <<pgName, pgRemote, pgSize, pgPage, pgAll, pgMore, pgReqs, pgPc,
              pgErr, pgWarned>>

vars == <<retryVars, passVars, opVars, pageVars>>


-----------------------------------------------------------------------------
(* Durations, in seconds.                                                  *)
Second == 1
Minute == 60
Hour == 3600

Min(a, b) == IF a < b THEN a ELSE b
Max(a, b) == IF a > b THEN a ELSE b

-----------------------------------------------------------------------------
(***************************************************************************)
(* Errors.  A Go error value is a record; kind "nil" is the nil error.     *)
(* ResetTime is meaningful for kind "ratelimit" (api.RateLimitError).      *)
(* An error built by fmt.Errorf("...%w", err) is modelled by Wrap(err):    *)
(* errors.As looks through the chain, so it finds what err would find.     *)
(***************************************************************************)
NilErr == [kind |-> "nil", ResetTime |-> 0, wrapped |-> FALSE]
OtherErr == [kind |-> "other", ResetTime |-> 0, wrapped |-> FALSE]
CtxErr == [kind |-> "ctx", ResetTime |-> 0, wrapped |-> FALSE]
RateLimitError(reset) == [kind |-> "ratelimit", ResetTime |-> reset, wrapped |-> FALSE]

\* a wrong wrapping: the message is formatted with %v, the chain is lost
WrapLosesChain(err) == [kind |-> "other", ResetTime |-> 0, wrapped |-> TRUE]

\* fmt.Errorf("exceeded maximum retries (%d) for %s: %w", ..., err)
Wrap(err) == [err EXCEPT !.wrapped = TRUE]

\* errors.As(err, &rateLimitErr) for *api.RateLimitError
IsRateLimit(err) == err.kind = "ratelimit"

-----------------------------------------------------------------------------
(***************************************************************************)
(* The outcome of one remote request, before handleRateLimit:              *)
(*   raw    : "nil" | "other" | "ghratelimit" (a github.RateLimitError)    *)
(*   reset  : rateLimitErr.Rate.Reset.Time (0 is the zero time)            *)
(*   header : the X-RateLimit-Reset header of the response                 *)
(*            h = "noresp"  resp == nil                                    *)
(*            h = "absent"  header not set                                 *)
(*            h = "bad"     strconv.ParseInt fails                         *)
(*            h = "unix"    parses to v                                    *)
(***************************************************************************)
StartClock == 10000

EmbeddedOffsets == {-10, 10, 600, 3596, 7200}
HeaderOffsets == {-10, 20}

Headers(t) ==
    {[h |-> "noresp", v |-> 0], [h |-> "absent", v |-> 0], [h |-> "bad", v |-> 0]}
    \cup {[h |-> "unix", v |-> t + d] : d \in HeaderOffsets}

RawOutcomes(t) ==
    {[raw |-> "nil", reset |-> 0, header |-> [h |-> "absent", v |-> 0]],
     [raw |-> "other", reset |-> 0, header |-> [h |-> "absent", v |-> 0]]}
    \cup {[raw |-> "ghratelimit", reset |-> r, header |-> hd] :
            r \in {0} \cup {t + d : d \in EmbeddedOffsets}, hd \in Headers(t)}

NoCall == [raw |-> "none", reset |-> 0, header |-> [h |-> "absent", v |-> 0]]

\* a wrong priority: the header is preferred to the error's own reset time
HandleRateLimitHeaderFirst(out, t) ==
    IF out.raw = "nil" THEN NilErr
    ELSE IF out.raw = "ghratelimit"
    THEN RateLimitError(
            IF out.header.h = "unix" THEN out.header.v
            ELSE IF out.reset > t THEN out.reset
            ELSE t + 1 * Hour)
    ELSE OtherErr

\* GitHubClient.handleRateLimit(err, resp), evaluated at instant t
HandleRateLimit(out, t) ==
    IF out.raw = "nil" THEN NilErr
    ELSE IF out.raw = "ghratelimit"
    THEN RateLimitError(
            IF out.reset > t THEN out.reset
            ELSE IF out.header.h = "unix" THEN out.header.v
            ELSE t + 1 * Hour)
    ELSE OtherErr

-----------------------------------------------------------------------------
(* executeWithRetry                                                        *)

\* maxRetries := 5
maxRetries == 5

\* a wrong wait: the 5 s buffer is left out
WaitTimeNoBuffer(reset, t) ==
    LET w0 == reset - t
        w1 == IF w0 > 1 * Hour THEN 1 * Hour ELSE w0
    IN  IF w1 < 5 * Second THEN 30 * Second ELSE w1

\* github.go 283-296: the wait computed for a rate-limit error
WaitTimeFor(reset, t) ==
    LET w0 == (reset - t) + 5 * Second
        w1 == IF w0 > 1 * Hour THEN 1 * Hour ELSE w0
    IN  IF w1 < 5 * Second THEN 30 * Second ELSE w1
-----------------------------------------------------------------------------
(***************************************************************************)
(* The store (internal/db/db.go).  A table is the set of its rows.  Each   *)
(* Save operation is one SQL statement, hence atomic; it yields            *)
(* [err, tbl]: whether the statement failed, and the table afterwards.     *)
(* An INSERT ... ON CONFLICT(k) DO UPDATE updates the row that has the     *)
(* same k; a row that differs in k and collides on another PRIMARY KEY or  *)
(* UNIQUE column makes the statement fail and leaves the table unchanged.  *)
(***************************************************************************)
StmtOk(tbl) == [err |-> FALSE, tbl |-> tbl]
StmtFails(tbl) == [err |-> TRUE, tbl |-> tbl]

\* a wrong SaveUser: a plain INSERT, with no ON CONFLICT clause
SaveUserPlainInsert(tbl, user) ==
    IF \E r \in tbl : r.id = user.id \/ r.login = user.login
    THEN StmtFails(tbl)
    ELSE StmtOk(tbl \cup {user})

\* db.go 122-138 with the schema of db.go 41-45:
\* users(id PRIMARY KEY, login UNIQUE, avatar_url)
SaveUser(tbl, user) ==
    IF \E r \in tbl : r.id # user.id /\ r.login = user.login
    THEN StmtFails(tbl)
    ELSE StmtOk({r \in tbl : r.id # user.id} \cup {user})

\* a wrong SaveRepository: a plain INSERT, with no ON CONFLICT clause
SaveRepositoryPlainInsert(tbl, repo) ==
    IF \E r \in tbl : r.id = repo.id \/ r.full_name = repo.full_name
    THEN StmtFails(tbl)
    ELSE StmtOk(tbl \cup {repo})

\* db.go 104-120 with the schema of db.go 34-39:
\* repositories(id PRIMARY KEY, owner, name, full_name UNIQUE);
\* on a conflict the stored id is kept
SaveRepository(tbl, repo) ==
    IF \E r \in tbl : r.full_name # repo.full_name /\ r.id = repo.id
    THEN StmtFails(tbl)
    ELSE IF \E r \in tbl : r.full_name = repo.full_name
    THEN StmtOk({IF r.full_name = repo.full_name
                 THEN [r EXCEPT !.owner = repo.owner, !.name = repo.name]
                 ELSE r : r \in tbl})
    ELSE StmtOk(tbl \cup {repo})

\* a wrong SaveIssue: a plain INSERT, with no ON CONFLICT clause
SaveIssuePlainInsert(tbl, issue, repoID) ==
    LET row == [issue EXCEPT !.repository_id = repoID] IN
    IF \E r \in tbl : r.id = row.id
                      \/ (r.repository_id = repoID /\ r.number = row.number)
    THEN StmtFails(tbl)
    ELSE StmtOk(tbl \cup {row})

\* a wrong SaveIssue: the stored row is replaced only by a newer one
SaveIssueNewerOnly(tbl, issue, repoID) ==
    LET row == [issue EXCEPT !.repository_id = repoID]
        Same(r) == r.repository_id = repoID /\ r.number = row.number
    IN  IF \E r \in tbl : Same(r)
        THEN StmtOk({IF Same(r) /\ row.updated_at > r.updated_at
                     THEN [r EXCEPT !.content = row.content,
                                    !.updated_at = row.updated_at,
                                    !.user_id = row.user_id]
                     ELSE r : r \in tbl})
        ELSE IF \E r \in tbl : r.id = row.id
        THEN StmtFails(tbl)
        ELSE StmtOk(tbl \cup {row})

\* db.go 140-174 with the schema of db.go 47-62:
\* issues(id PRIMARY KEY, ..., UNIQUE(repository_id, number)).  The field
\* content stands for the columns title, body, state, closed_at and
\* is_pull_request.  A conflict on (repository_id, number) is resolved
\* first, by the DO UPDATE, which keeps id, number, created_at and
\* repository_id of the stored row and inserts nothing, so that the
\* incoming id is not looked at; without such a conflict the row is
\* inserted, and an id that another row holds fails the statement.
SaveIssue(tbl, issue, repoID) ==
    LET row == [issue EXCEPT !.repository_id = repoID]
        Same(r) == r.repository_id = repoID /\ r.number = row.number
    IN  IF \E r \in tbl : Same(r)
        THEN StmtOk({IF Same(r)
                     THEN [r EXCEPT !.content = row.content,
                                    !.updated_at = row.updated_at,
                                    !.user_id = row.user_id]
                     ELSE r : r \in tbl})
        ELSE IF \E r \in tbl : r.id = row.id
        THEN StmtFails(tbl)
        ELSE StmtOk(tbl \cup {row})

\* a wrong SaveComment: a plain INSERT, with no ON CONFLICT clause
SaveCommentPlainInsert(tbl, comment) ==
    IF \E r \in tbl : r.id = comment.id
    THEN StmtFails(tbl)
    ELSE StmtOk(tbl \cup {comment})

\* db.go 176-200 with the schema of db.go 64-73: comments(id PRIMARY KEY,
\* ...); on a conflict body and updated_at are replaced
SaveComment(tbl, comment) ==
    IF \E r \in tbl : r.id = comment.id
    THEN StmtOk({IF r.id = comment.id
                 THEN [r EXCEPT !.body = comment.body,
                                !.updated_at = comment.updated_at]
                 ELSE r : r \in tbl})
    ELSE StmtOk(tbl \cup {comment})

\* db.go 202-232 with the schema of db.go 75-80: labels(id PRIMARY KEY,
\* name, color, UNIQUE(name, color)).  The second statement is the first
\* one again, without RETURNING: it fails when the first one does.
SaveLabel(tbl, label) ==
    IF \E r \in tbl : r.id # label.id /\ r.name = label.name /\ r.color = label.color
    THEN [err |-> TRUE, tbl |-> tbl, id |-> 0]
    ELSE [err |-> FALSE, tbl |-> {r \in tbl : r.id # label.id} \cup {label},
          id |-> label.id]

\* db.go 234-248: ON CONFLICT(issue_id, label_id) DO NOTHING
\* a wrong SaveIssueLabel: a plain INSERT, with no ON CONFLICT clause
SaveIssueLabelPlainInsert(tbl, issueID, labelID) ==
    IF [issue_id |-> issueID, label_id |-> labelID] \in tbl
    THEN StmtFails(tbl)
    ELSE StmtOk(tbl \cup {[issue_id |-> issueID, label_id |-> labelID]})

\* a wrong SaveIssueLabel: the new pair replaces the pairs of the issue
SaveIssueLabelReplacesPairs(tbl, issueID, labelID) ==
    StmtOk({r \in tbl : r.issue_id # issueID}
           \cup {[issue_id |-> issueID, label_id |-> labelID]})

SaveIssueLabel(tbl, issueID, labelID) ==
    StmtOk(tbl \cup {[issue_id |-> issueID, label_id |-> labelID]})

\* db.go 250-265: the zero instant (0) when there is no row
\* a wrong GetLastSyncTime: with no row it returns the instant the
\* program was started, not the zero instant
GetLastSyncTimeNoRowStart(tbl, repoFullName) ==
    IF \E r \in tbl : r.repository = repoFullName
    THEN (CHOOSE r \in tbl : r.repository = repoFullName).last_sync_time
    ELSE StartClock

GetLastSyncTime(tbl, repoFullName) ==
    IF \E r \in tbl : r.repository = repoFullName
    THEN (CHOOSE r \in tbl : r.repository = repoFullName).last_sync_time
    ELSE 0

\* a wrong UpdateLastSyncTime: the row is inserted once and never updated
UpdateLastSyncTimeInsertOnly(tbl, repoFullName, syncTime) ==
    IF \E r \in tbl : r.repository = repoFullName
    THEN StmtOk(tbl)
    ELSE StmtOk(tbl \cup {[repository |-> repoFullName, last_sync_time |-> syncTime]})

\* a wrong UpdateLastSyncTime: the table is emptied before the row is written
UpdateLastSyncTimeSingleRow(tbl, repoFullName, syncTime) ==
    StmtOk({[repository |-> repoFullName, last_sync_time |-> syncTime]})

\* db.go 267-282: sync_metadata(repository PRIMARY KEY, last_sync_time)
UpdateLastSyncTime(tbl, repoFullName, syncTime) ==
    StmtOk({r \in tbl : r.repository # repoFullName}
           \cup {[repository |-> repoFullName, last_sync_time |-> syncTime]})

-----------------------------------------------------------------------------
(***************************************************************************)
(* HandleGitHubID (github.go 517-534), at a width of IdWidth bits instead  *)
(* of 64: int64 is SignedMin..SignedMax, uint64 is 0..2^IdWidth - 1.  A    *)
(* decimal string is the sequence of its digits.                           *)
(***************************************************************************)
IdWidth == 7

RECURSIVE Pow2(_)
Pow2(n) == IF n = 0 THEN 1 ELSE 2 * Pow2(n - 1)

SignedMin == 0 - Pow2(IdWidth - 1)
SignedMax == Pow2(IdWidth - 1) - 1
SignedRange == SignedMin..SignedMax

\* uint64(id): the same bits, read as unsigned
ToUint(id) == id % Pow2(IdWidth)

\* strconv.FormatUint(u, 10)
RECURSIVE FormatUint(_)
FormatUint(u) ==
    IF u < 10 THEN <<u>> ELSE Append(FormatUint(u \div 10), u % 10)

\* the number a string of digits denotes
RECURSIVE DigitsValue(_)
DigitsValue(s) ==
    IF Len(s) = 0 THEN 0
    ELSE 10 * DigitsValue(SubSeq(s, 1, Len(s) - 1)) + s[Len(s)]

\* strconv.ParseInt(s, 10, bitSize) for an unsigned string of digits: a
\* value that does not fit gives ErrRange and the largest signed value
ParseInt(s) ==
    IF DigitsValue(s) > SignedMax
    THEN [value |-> SignedMax, err |-> TRUE]
    ELSE [value |-> DigitsValue(s), err |-> FALSE]

\* github.go 519-534: the error of ParseInt is dropped, its value returned
HandleGitHubID(id) ==
    IF id < 0 THEN ParseInt(FormatUint(ToUint(id))).value ELSE id

-----------------------------------------------------------------------------
(***************************************************************************)
(* The remote repository o/r.  Its issues are numbered 1..NumIssues; issue *)
(* 1 carries two labels and two comments, the others none.  An update of   *)
(* an issue sets its updated_at to the instant of the edit; an edit of     *)
(* issue 1 also takes its second label off.  Instants are                  *)
(* seconds; a clock that is read shows an instant not earlier than the     *)
(* last one any clock showed.  The list request is served in pages of      *)
(* PerPage issues: 100 in github.go 361, scaled down here so that a        *)
(* changed-set of NumIssues issues spans several pages.                    *)
(***************************************************************************)
NumIssues == 2
MaxClock == 3
MaxWorkers == 2
MaxPasses == 2
MaxEvents == 2
PerPage == 1

Issues == 1..NumIssues
Workers == 1..MaxWorkers

fullName == "o/r"

RemoteUser(u) == [id |-> HandleGitHubID(u), login |-> u, avatar_url |-> u]
RemoteRepository == [id |-> HandleGitHubID(500), owner |-> 1, name |-> "r", full_name |-> fullName]
ownerUser == RemoteUser(1)

IssueAuthor(n) == IF n = 1 THEN 1 ELSE 2
\* ghIssue.Labels of an issue as a list request returned it
IssueLabels(gh) ==
    IF gh.number = 1
    THEN IF gh.updated_at = 1 THEN <<1, 2>> ELSE <<1>>
    ELSE <<>>
IssueComments(n) == IF n = 1 THEN <<1, 2>> ELSE <<>>
CommentAuthor(c) == IF c = 1 THEN 2 ELSE 1

\* a *github.Issue as a list request returns it
GhIssue(n) == [id |-> 100 + n, number |-> n, updated_at |-> remoteUpdated[n],
               user |-> IssueAuthor(n)]
NoIssue == [id |-> 0, number |-> 0, updated_at |-> 0, user |-> 0]

\* github.go 465-490
ConvertGitHubIssue(gh) ==
    [id |-> HandleGitHubID(gh.id), number |-> gh.number,
     content |-> gh.updated_at, created_at |-> 1,
     updated_at |-> gh.updated_at, user_id |-> HandleGitHubID(gh.user),
     repository_id |-> 0]

\* github.go 492-507
\* a wrong converter: the comment takes the id of its issue
ConvertGitHubCommentIssueKey(c, issueID) ==
    [id |-> issueID, issue_id |-> issueID,
     user_id |-> HandleGitHubID(CommentAuthor(c)),
     body |-> c, updated_at |-> 1]

ConvertGitHubComment(c, issueID) ==
    [id |-> HandleGitHubID(200 + c), issue_id |-> issueID,
     user_id |-> HandleGitHubID(CommentAuthor(c)),
     body |-> c, updated_at |-> 1]

\* github.go 509-516
ConvertGitHubLabel(l) == [id |-> HandleGitHubID(300 + l), name |-> l, color |-> l]

\* a wrong filter: an issue updated exactly at the checkpoint is left out
ChangedSinceStrict(since) == {n \in Issues : remoteUpdated[n] > since}

\* the remote's "since" filter: github.go 359 sends Since: since, and
\* github.go 795 states it: an issue is skipped when UpdatedAt.Before(since)
ChangedSince(since) == {n \in Issues : ~(remoteUpdated[n] < since)}

\* Sort: "updated", Direction: "desc" (github.go 356-358)
RECURSIVE SortUpdatedDesc(_)
SortUpdatedDesc(S) ==
    IF S = {} THEN <<>>
    ELSE LET m == CHOOSE x \in S : \A y \in S :
                     \/ remoteUpdated[x] > remoteUpdated[y]
                     \/ (remoteUpdated[x] = remoteUpdated[y] /\ x <= y)
         IN  <<GhIssue(m)>> \o SortUpdatedDesc(S \ {m})

\* what the remote lists for the request of github.go 355-364
ListAll(since) == SortUpdatedDesc(ChangedSince(since))

\* client.Issues.ListByRepo with opts.Page = page: one page of the list
ListByRepo(since, page) ==
    LET all == ListAll(since)
        lo == (page - 1) * PerPage + 1
        hi == Min(page * PerPage, Len(all))
    IN  IF lo > hi THEN <<>> ELSE SubSeq(all, lo, hi)

\* the number of requests the loop of github.go 366-392 makes: it stops
\* after the first page shorter than PerPage
PagesOf(since) == (Len(ListAll(since)) \div PerPage) + 1

\* a wrong loop: after a failed request it returns the pages it has, and
\* no error
RECURSIVE GetIssuesKeepsPagesFrom(_, _, _, _)
GetIssuesKeepsPagesFrom(since, page, allIssues, failPage) ==
    IF page = failPage
    THEN [issues |-> allIssues, failed |-> FALSE]
    ELSE LET pageIssues == ListByRepo(since, page)
             all == allIssues \o pageIssues
         IN  IF Len(pageIssues) < PerPage
             THEN [issues |-> all, failed |-> FALSE]
             ELSE GetIssuesKeepsPagesFrom(since, page + 1, all, failPage)

\* the loop of github.go 366-392 from page on, with allIssues fetched so
\* far; the request of page failPage fails (0: none does) and the loop
\* returns nil and the error, dropping allIssues
RECURSIVE GetIssuesFrom(_, _, _, _)
GetIssuesFrom(since, page, allIssues, failPage) ==
    IF page = failPage
    THEN [issues |-> <<>>, failed |-> TRUE]
    ELSE LET pageIssues == ListByRepo(since, page)
             all == allIssues \o pageIssues
         IN  IF Len(pageIssues) < PerPage
             THEN [issues |-> all, failed |-> FALSE]
             ELSE GetIssuesFrom(since, page + 1, all, failPage)

\* a wrong GetIssues: see GetIssuesKeepsPagesFrom
GetIssuesKeepsPages(since, failPage) ==
    GetIssuesKeepsPagesFrom(since, 1, <<>>, failPage)

\* github.go 352-396
GetIssues(since, failPage) == GetIssuesFrom(since, 1, <<>>, failPage)

\* a wrong waitTime: the cap of 15 minutes is left out
MonitorWaitTimeNoCap(reset, t) ==
    LET until == reset - t
    IN  IF until < 0 THEN 30 * Second ELSE until

\* sync.go 179-187: the waitTime of the monitor for a reset instant, at
\* instant t
MonitorWaitTime(reset, t) ==
    LET until == reset - t
        w == IF until < 0 THEN 30 * Second ELSE until
    IN  IF w > 15 * Minute THEN 15 * Minute ELSE w

\* sync.go 25-33: the worker count is stored as given
NewSyncer(n) == n

\* the cap of sync.go 40-41
WorkersCap == 10

\* sync.go 36-44: the worker count is clamped to 1..10
SetWorkers(n) == IF n < 1 THEN 1 ELSE IF n > WorkersCap THEN WorkersCap ELSE n

\* what an executeWithRetry-wrapped request can return to its caller
CallOutcomes(cancelled) ==
    IF cancelled THEN {CtxErr}
    ELSE {NilErr, OtherErr, Wrap(RateLimitError(now + 1))}

\* what a clock can show when it is read
ClockReads == now..MaxClock

SeqToSet(s) == {s[k] : k \in DOMAIN s}

-----------------------------------------------------------------------------
(***************************************************************************)
(* SyncRepository.  Every statement sent to the store and every remote     *)
(* request is one step.  A store statement can fail for a reason of its    *)
(* own (the database is locked, the disk is full): such a failure, like a  *)
(* failure of a remote request, is recorded in faults.                     *)
(***************************************************************************)
NoWorkerRuns == \A w \in Workers : wPc[w] \in {"none", "exit"}

\* the workerCtx of sync.go 112-113: cancelled with ctx, and by the
\* deferred cancelWorkers() when SyncRepository returns
workerCtxDone == ctxDone \/ coordPc = "done"

\* one statement: it fails by injection, or does what the operator says
Exec(injected, outcome, tbl) == IF injected THEN StmtFails(tbl) ELSE outcome

\* the environment makes a step fail (flag) or lets it be
Inject(flag, tag) ==
    /\ flag => events < MaxEvents
    /\ faults' = IF flag THEN faults \cup {tag} ELSE faults
    /\ events' = IF flag THEN events + 1 ELSE events

InitPass ==
    /\ now = 1
    /\ remoteUpdated = [n \in Issues |-> 1]
    /\ ctxDone = FALSE
    /\ workers \in {NewSyncer(n) : n \in 0..MaxWorkers}
    /\ tblRepositories = {} /\ tblUsers = {} /\ tblIssues = {}
    /\ tblComments = {} /\ tblLabels = {} /\ tblIssueLabels = {}
    /\ tblSyncMetadata = {}
    /\ coordPc = "idle"
    /\ lastSyncTime = 0
    /\ issues = <<>>
    /\ sendIdx = 1
    /\ errorCount = 0
    /\ result = NilErr
    /\ issuesChan = <<>> /\ issuesClosed = FALSE
    /\ errorsChan = <<>> /\ errorsClosed = FALSE
    /\ rateLimitChan = <<>> /\ rateLimitClosed = FALSE
    /\ processed = 0
    /\ wPc = [w \in Workers |-> "none"]
    /\ wIssue = [w \in Workers |-> NoIssue]
    /\ wIdx = [w \in Workers |-> 0]
    /\ wErr = [w \in Workers |-> NilErr]
    /\ monPc = "none"
    /\ monWake = 0
    /\ passNo = 0
    /\ passStart = 0
    /\ joinedAt = 0
    /\ ckptWrites = 0
    /\ faults = {}
    /\ events = 0
    /\ started = {}
    /\ completed = {}
    /\ savedIssues = {}
    /\ tablesChanged = FALSE
    /\ remoteChanged = FALSE
    /\ prevStable = FALSE
    /\ everFailed = FALSE
    /\ fetchFailed = {}
    /\ commentSteps = {}

\* the pass that ended met no failure of any kind
PassWasClean ==
    /\ result = NilErr
    /\ errorCount = 0
    /\ faults = {}
    /\ ~ctxDone

----
(* the environment *)

\* somebody edits issue n on the remote side: its updated_at becomes the
\* instant of the edit
RemoteUpdate(n) ==
    /\ events < MaxEvents
    /\ \E t \in ClockReads :
         /\ remoteUpdated[n] < t
         /\ remoteUpdated' = [remoteUpdated EXCEPT ![n] = t]
         /\ now' = t
    /\ events' = events + 1
    /\ remoteChanged' = TRUE
    /\ UNCHANGED <<ctxDone, workers, storeVars, coordVars, chanVars,
                   workerVars, monVars, retryVars, opVars, pageVars>>
    /\ UNCHANGED <<passNo, passStart, joinedAt, ckptWrites, faults, started,
                   completed, savedIssues, tablesChanged, prevStable, everFailed,
                   fetchFailed, commentSteps>>

\* the ambient context is cancelled
Cancel ==
    /\ ~ctxDone
    /\ passNo > 0
    /\ events < MaxEvents
    /\ ctxDone' = TRUE
    /\ events' = events + 1
    /\ UNCHANGED <<now, remoteUpdated, workers, storeVars, coordVars, chanVars,
                   workerVars, monVars, retryVars, opVars, pageVars>>
    /\ UNCHANGED <<passNo, passStart, joinedAt, ckptWrites, faults, started,
                   completed, savedIssues, tablesChanged, remoteChanged,
                   prevStable, everFailed,
                   fetchFailed, commentSteps>>

----
(* the coordinating goroutine *)

\* SyncRepository is called (part_006 159): the locals are fresh.  A pass
\* is observed once the workers of the previous one have returned; a
\* monitor of the previous pass that is still asleep holds a closed channel
\* and does nothing more, and is forgotten.
StartPass ==
    /\ coordPc \in {"idle", "done"}
    /\ NoWorkerRuns
    /\ monPc \in {"none", "exit", "sleep"}
    /\ passNo < MaxPasses
    /\ coordPc' = "getRepository"
    /\ lastSyncTime' = 0
    /\ issues' = <<>>
    /\ sendIdx' = 1
    /\ errorCount' = 0
    /\ result' = NilErr
    /\ issuesChan' = <<>> /\ issuesClosed' = FALSE
    /\ errorsChan' = <<>> /\ errorsClosed' = FALSE
    /\ rateLimitChan' = <<>> /\ rateLimitClosed' = FALSE
    /\ processed' = 0
    /\ wPc' = [w \in Workers |-> "none"]
    /\ wIssue' = [w \in Workers |-> NoIssue]
    /\ wIdx' = [w \in Workers |-> 0]
    /\ wErr' = [w \in Workers |-> NilErr]
    /\ monPc' = "none"
    /\ monWake' = 0
    /\ passNo' = passNo + 1
    /\ \E t \in ClockReads : passStart' = t /\ now' = t
    /\ joinedAt' = 0
    /\ ckptWrites' = 0
    /\ faults' = {}
    /\ UNCHANGED events
    /\ started' = {}
    /\ completed' = {}
    /\ savedIssues' = {}
    /\ tablesChanged' = FALSE
    /\ remoteChanged' = FALSE
    /\ prevStable' = (passNo > 0 /\ PassWasClean /\ ~remoteChanged)
    /\ everFailed' = (everFailed \/ (passNo > 0 /\ ~PassWasClean))
    /\ fetchFailed' = {}
    /\ commentSteps' = {}
    /\ UNCHANGED <<otherEnv, storeVars, retryVars, opVars, pageVars>>

\* SyncRepository returns err before any goroutine was started
ReturnError(err) ==
    /\ coordPc' = "done"
    /\ result' = err

\* sync.go 50-54
CoordGetRepository ==
    /\ coordPc = "getRepository"
    /\ \E err \in CallOutcomes(ctxDone) \ {Wrap(RateLimitError(now + 1))} :
         /\ IF err = NilErr
            THEN coordPc' = "saveOwner" /\ UNCHANGED result
            ELSE ReturnError(Wrap(err))
         /\ Inject(err = OtherErr, <<"setup", 0>>)
    /\ UNCHANGED <<envVars, storeVars, lastSyncTime, issues, sendIdx, errorCount,
                   chanVars, workerVars, monVars, retryVars, opVars, pageVars>>
    /\ UNCHANGED <<passNo, passStart, joinedAt, ckptWrites, started, completed,
                   savedIssues, tablesChanged, remoteChanged, prevStable, everFailed,
                   fetchFailed, commentSteps>>

\* sync.go 56-59
CoordSaveOwner ==
    /\ coordPc = "saveOwner"
    /\ \E inj \in BOOLEAN :
         LET r == Exec(inj, SaveUser(tblUsers, ownerUser), tblUsers) IN
         /\ tblUsers' = r.tbl
         /\ tablesChanged' = (tablesChanged \/ r.tbl # tblUsers)
         /\ IF r.err
            THEN ReturnError(Wrap(OtherErr))
            ELSE coordPc' = "saveRepository" /\ UNCHANGED result
         /\ Inject(inj, <<"setup", 0>>)
    /\ UNCHANGED <<envVars, tblRepositories, tblIssues, tblComments, tblLabels,
                   tblIssueLabels, tblSyncMetadata, lastSyncTime, issues, sendIdx,
                   errorCount, chanVars, workerVars, monVars, retryVars, opVars, pageVars>>
    /\ UNCHANGED <<passNo, passStart, joinedAt, ckptWrites, started, completed,
                   savedIssues, remoteChanged, prevStable, everFailed,
                   fetchFailed, commentSteps>>

\* sync.go 61-64
CoordSaveRepository ==
    /\ coordPc = "saveRepository"
    /\ \E inj \in BOOLEAN :
         LET r == Exec(inj, SaveRepository(tblRepositories, RemoteRepository),
                       tblRepositories) IN
         /\ tblRepositories' = r.tbl
         /\ tablesChanged' = (tablesChanged \/ r.tbl # tblRepositories)
         /\ IF r.err
            THEN ReturnError(Wrap(OtherErr))
            ELSE coordPc' = "getLastSyncTime" /\ UNCHANGED result
         /\ Inject(inj, <<"setup", 0>>)
    /\ UNCHANGED <<envVars, tblUsers, tblIssues, tblComments, tblLabels,
                   tblIssueLabels, tblSyncMetadata, lastSyncTime, issues, sendIdx,
                   errorCount, chanVars, workerVars, monVars, retryVars, opVars, pageVars>>
    /\ UNCHANGED <<passNo, passStart, joinedAt, ckptWrites, started, completed,
                   savedIssues, remoteChanged, prevStable, everFailed,
                   fetchFailed, commentSteps>>

\* sync.go 66-70
CoordGetLastSyncTime ==
    /\ coordPc = "getLastSyncTime"
    /\ \E inj \in BOOLEAN :
         /\ IF inj
            THEN ReturnError(Wrap(OtherErr)) /\ UNCHANGED lastSyncTime
            ELSE /\ lastSyncTime' = GetLastSyncTime(tblSyncMetadata, fullName)
                 /\ coordPc' = "getIssues"
                 /\ UNCHANGED result
         /\ Inject(inj, <<"setup", 0>>)
    /\ UNCHANGED <<envVars, storeVars, issues, sendIdx, errorCount,
                   chanVars, workerVars, monVars, retryVars, opVars, pageVars>>
    /\ UNCHANGED <<passNo, passStart, joinedAt, ckptWrites, started, completed,
                   savedIssues, tablesChanged, remoteChanged, prevStable, everFailed,
                   fetchFailed, commentSteps>>

\* sync.go 74-91: the changed-set is fetched, page by page; the request
\* of one page can fail (with ctx done the first one does); an empty
\* changed-set goes straight to the checkpoint
CoordGetIssues ==
    /\ coordPc = "getIssues"
    /\ \E err \in CallOutcomes(ctxDone) \ {Wrap(RateLimitError(now + 1))},
          page \in 1..PagesOf(lastSyncTime) :
         LET failPage == IF err = NilErr THEN 0
                         ELSE IF err = CtxErr THEN 1 ELSE page
             r == GetIssues(lastSyncTime, failPage)
         IN  /\ IF r.failed
                THEN ReturnError(Wrap(err)) /\ UNCHANGED issues
                ELSE /\ issues' = r.issues
                     /\ coordPc' = IF Len(issues') = 0 THEN "emptyCheckpoint"
                                                       ELSE "spawn"
                     /\ UNCHANGED result
             /\ Inject(err = OtherErr, <<"page", failPage>>)
    /\ UNCHANGED <<envVars, storeVars, lastSyncTime, sendIdx, errorCount,
                   chanVars, workerVars, monVars, retryVars, opVars, pageVars>>
    /\ UNCHANGED <<passNo, passStart, joinedAt, ckptWrites, started, completed,
                   savedIssues, tablesChanged, remoteChanged, prevStable, everFailed,
                   fetchFailed, commentSteps>>

\* a wrong checkpoint: the instant the pass started is written
WriteCheckpointAtStart(inj) ==
    \E t \in ClockReads :
    LET r == Exec(inj, UpdateLastSyncTime(tblSyncMetadata, fullName, passStart),
                  tblSyncMetadata) IN
    /\ now' = t
    /\ tblSyncMetadata' = r.tbl
    /\ ckptWrites' = ckptWrites + 1
    /\ coordPc' = "done"
    /\ result' = IF r.err THEN Wrap(OtherErr) ELSE NilErr
    /\ Inject(inj, <<"checkpoint", 0>>)

\* s.db.UpdateLastSyncTime(fullName, time.Now()) and the return that
\* follows it (sync.go 87-90 and 224-229)
WriteCheckpoint(inj) ==
    \E t \in ClockReads :
    LET r == Exec(inj, UpdateLastSyncTime(tblSyncMetadata, fullName, t),
                  tblSyncMetadata) IN
    /\ now' = t
    /\ tblSyncMetadata' = r.tbl
    /\ ckptWrites' = ckptWrites + 1
    /\ coordPc' = "done"
    /\ result' = IF r.err THEN Wrap(OtherErr) ELSE NilErr
    /\ Inject(inj, <<"checkpoint", 0>>)

\* a wrong empty pass: it returns nil and leaves the checkpoint alone
CoordEmptyReturnsAtOnce ==
    /\ coordPc = "emptyCheckpoint"
    /\ coordPc' = "done"
    /\ result' = NilErr
    /\ UNCHANGED <<now, tblSyncMetadata, ckptWrites, faults, events>>
    /\ UNCHANGED <<otherEnv, tblRepositories, tblUsers, tblIssues, tblComments,
                   tblLabels, tblIssueLabels, lastSyncTime, issues, sendIdx,
                   errorCount, chanVars, workerVars, monVars, retryVars, opVars, pageVars>>
    /\ UNCHANGED <<passNo, passStart, joinedAt, started, completed,
                   savedIssues, tablesChanged, remoteChanged, prevStable, everFailed,
                   fetchFailed, commentSteps>>

\* sync.go 84-91
CoordEmptyCheckpoint ==
    /\ coordPc = "emptyCheckpoint"
    /\ \E inj \in BOOLEAN : WriteCheckpoint(inj)
    /\ UNCHANGED <<otherEnv, tblRepositories, tblUsers, tblIssues, tblComments,
                   tblLabels, tblIssueLabels, lastSyncTime, issues, sendIdx,
                   errorCount, chanVars, workerVars, monVars, retryVars, opVars, pageVars>>
    /\ UNCHANGED <<passNo, passStart, joinedAt, started, completed,
                   savedIssues, tablesChanged, remoteChanged, prevStable, everFailed,
                   fetchFailed, commentSteps>>

\* sync.go 97-195: the channels are made, s.workers workers and the
\* monitor are started
CoordSpawn ==
    /\ coordPc = "spawn"
    /\ wPc' = [w \in Workers |-> IF w <= workers THEN "recv" ELSE "none"]
    /\ monPc' = "recv"
    /\ monWake' = 0
    /\ coordPc' = "send"
    /\ UNCHANGED <<envVars, storeVars, lastSyncTime, issues, sendIdx, errorCount,
                   result, chanVars, wIssue, wIdx, wErr, histVars, retryVars, opVars, pageVars>>

\* sync.go 198-205: one iteration of the dispatch loop.  The send never
\* blocks (the channel holds totalIssues); when ctx is done both cases of
\* the select are ready and Go picks either.
CoordSend ==
    /\ coordPc = "send"
    /\ sendIdx <= Len(issues)
    /\ \/ /\ ctxDone
          /\ ReturnError(CtxErr)
          /\ UNCHANGED <<sendIdx, issuesChan>>
       \/ /\ Len(issuesChan) < Len(issues)
          /\ issuesChan' = Append(issuesChan, issues[sendIdx])
          /\ sendIdx' = sendIdx + 1
          /\ UNCHANGED <<coordPc, result>>
    /\ UNCHANGED <<envVars, storeVars, lastSyncTime, issues, errorCount,
                   issuesClosed, errorsChan, errorsClosed, rateLimitChan,
                   rateLimitClosed, processed, workerVars, monVars, histVars, retryVars, opVars, pageVars>>

\* a wrong close: issuesChan is closed while the dispatch loop still runs
CoordCloseEarly ==
    /\ coordPc = "send"
    /\ ~issuesClosed \/ sendIdx > Len(issues)
    /\ issuesClosed' = TRUE
    /\ coordPc' = IF sendIdx > Len(issues) THEN "wait" ELSE "send"
    /\ UNCHANGED <<envVars, storeVars, lastSyncTime, issues, sendIdx, errorCount,
                   result, issuesChan, errorsChan, errorsClosed, rateLimitChan,
                   rateLimitClosed, processed, workerVars, monVars, histVars, retryVars, opVars, pageVars>>

\* sync.go 206: close(issuesChan)
CoordClose ==
    /\ coordPc = "send"
    /\ sendIdx > Len(issues)
    /\ issuesClosed' = TRUE
    /\ coordPc' = "wait"
    /\ UNCHANGED <<envVars, storeVars, lastSyncTime, issues, sendIdx, errorCount,
                   result, issuesChan, errorsChan, errorsClosed, rateLimitChan,
                   rateLimitClosed, processed, workerVars, monVars, histVars, retryVars, opVars, pageVars>>

\* a wrong join: it also waits for a monitor that sleeps
CoordJoinWaitsForMonitor ==
    /\ coordPc = "wait"
    /\ \A w \in Workers : w <= workers => wPc[w] = "exit"
    /\ monPc # "sleep"
    /\ errorsClosed' = TRUE
    /\ rateLimitClosed' = TRUE
    /\ errorCount' = Len(errorsChan)
    /\ errorsChan' = <<>>
    /\ \E t \in ClockReads : joinedAt' = t /\ now' = t
    /\ coordPc' = "checkpoint"
    /\ UNCHANGED <<otherEnv, storeVars, lastSyncTime, issues, sendIdx, result,
                   issuesChan, issuesClosed, rateLimitChan, processed,
                   workerVars, monVars, retryVars, opVars, pageVars>>
    /\ UNCHANGED <<passNo, passStart, ckptWrites, faults, events, started, completed,
                   savedIssues, tablesChanged, remoteChanged, prevStable, everFailed,
                   fetchFailed, commentSteps>>

\* a wrong join: it does not wait for the workers
CoordJoinNoWait ==
    /\ coordPc = "wait"
    /\ errorsClosed' = TRUE
    /\ rateLimitClosed' = TRUE
    /\ errorCount' = Len(errorsChan)
    /\ errorsChan' = <<>>
    /\ \E t \in ClockReads : joinedAt' = t /\ now' = t
    /\ coordPc' = "checkpoint"
    /\ UNCHANGED <<otherEnv, storeVars, lastSyncTime, issues, sendIdx, result,
                   issuesChan, issuesClosed, rateLimitChan, processed,
                   workerVars, monVars, retryVars, opVars, pageVars>>
    /\ UNCHANGED <<passNo, passStart, ckptWrites, faults, events, started, completed,
                   savedIssues, tablesChanged, remoteChanged, prevStable, everFailed,
                   fetchFailed, commentSteps>>

\* sync.go 208-221: wg.Wait(), the two closes, the count of the errors
CoordJoin ==
    /\ coordPc = "wait"
    /\ \A w \in Workers : w <= workers => wPc[w] = "exit"
    /\ errorsClosed' = TRUE
    /\ rateLimitClosed' = TRUE
    /\ errorCount' = Len(errorsChan)
    /\ errorsChan' = <<>>
    /\ \E t \in ClockReads : joinedAt' = t /\ now' = t
    /\ coordPc' = "checkpoint"
    /\ UNCHANGED <<otherEnv, storeVars, lastSyncTime, issues, sendIdx, result,
                   issuesChan, issuesClosed, rateLimitChan, processed,
                   workerVars, monVars, retryVars, opVars, pageVars>>
    /\ UNCHANGED <<passNo, passStart, ckptWrites, faults, events, started, completed,
                   savedIssues, tablesChanged, remoteChanged, prevStable, everFailed,
                   fetchFailed, commentSteps>>

\* sync.go 223-229
CoordCheckpoint ==
    /\ coordPc = "checkpoint"
    /\ \E inj \in BOOLEAN : WriteCheckpoint(inj)
    /\ UNCHANGED <<otherEnv, tblRepositories, tblUsers, tblIssues, tblComments,
                   tblLabels, tblIssueLabels, lastSyncTime, issues, sendIdx,
                   errorCount, chanVars, workerVars, monVars, retryVars, opVars, pageVars>>
    /\ UNCHANGED <<passNo, passStart, joinedAt, started, completed,
                   savedIssues, tablesChanged, remoteChanged, prevStable, everFailed,
                   fetchFailed, commentSteps>>

----
(* a worker goroutine (sync.go 119-174) and its processIssue (233-288) *)

\* where processIssue goes after the label at index k of issue gh
AfterLabel(gh, k) ==
    IF k < Len(IssueLabels(gh)) THEN "saveLabel" ELSE "getComments"

\* where processIssue goes after the comment at index k of issue n
AfterComment(n, k) == IF k < Len(IssueComments(n)) THEN "saveCommentUser" ELSE "report"

\* a wrong receive: the worker reads the head of the channel and leaves it
\* there
WorkerReceivePeeks(w) ==
    /\ wPc[w] = "recv"
    /\ \/ /\ issuesChan # <<>>
          /\ issuesChan' = issuesChan
          /\ IF ctxDone
             THEN /\ wPc' = [wPc EXCEPT ![w] = "exit"]
                  /\ UNCHANGED <<wIssue, wErr, started>>
             ELSE /\ wPc' = [wPc EXCEPT ![w] = "saveUser"]
                  /\ wIssue' = [wIssue EXCEPT ![w] = Head(issuesChan)]
                  /\ wErr' = [wErr EXCEPT ![w] = NilErr]
                  /\ started' = started \cup {Head(issuesChan).number}
       \/ /\ issuesChan = <<>>
          /\ issuesClosed
          /\ wPc' = [wPc EXCEPT ![w] = "exit"]
          /\ UNCHANGED <<issuesChan, wIssue, wErr, started>>
    /\ UNCHANGED <<envVars, storeVars, coordVars, issuesClosed, errorsChan,
                   errorsClosed, rateLimitChan, rateLimitClosed, processed,
                   wIdx, monVars, retryVars, opVars, pageVars>>
    /\ UNCHANGED <<passNo, passStart, joinedAt, ckptWrites, faults, events, completed,
                   savedIssues, tablesChanged, remoteChanged, prevStable, everFailed,
                   fetchFailed, commentSteps>>

\* sync.go 124-130: an issue is taken from issuesChan, then ctx (not
\* workerCtx) is looked at; with ctx done the worker returns and the issue
\* it took is dropped.  With issuesChan closed and empty the range ends.
WorkerReceive(w) ==
    /\ wPc[w] = "recv"
    /\ \/ /\ issuesChan # <<>>
          /\ issuesChan' = Tail(issuesChan)
          /\ IF ctxDone
             THEN /\ wPc' = [wPc EXCEPT ![w] = "exit"]
                  /\ UNCHANGED <<wIssue, wErr, started>>
             ELSE /\ wPc' = [wPc EXCEPT ![w] = "saveUser"]
                  /\ wIssue' = [wIssue EXCEPT ![w] = Head(issuesChan)]
                  /\ wErr' = [wErr EXCEPT ![w] = NilErr]
                  /\ started' = started \cup {Head(issuesChan).number}
       \/ /\ issuesChan = <<>>
          /\ issuesClosed
          /\ wPc' = [wPc EXCEPT ![w] = "exit"]
          /\ UNCHANGED <<issuesChan, wIssue, wErr, started>>
    /\ UNCHANGED <<envVars, storeVars, coordVars, issuesClosed, errorsChan,
                   errorsClosed, rateLimitChan, rateLimitClosed, processed,
                   wIdx, monVars, retryVars, opVars, pageVars>>
    /\ UNCHANGED <<passNo, passStart, joinedAt, ckptWrites, faults, events, completed,
                   savedIssues, tablesChanged, remoteChanged, prevStable, everFailed,
                   fetchFailed, commentSteps>>

\* processIssue returns err
ProcReturn(w, err) ==
    /\ wErr' = [wErr EXCEPT ![w] = err]
    /\ wPc' = [wPc EXCEPT ![w] = "report"]

\* sync.go 235-240: the author of the issue
ProcSaveUser(w) ==
    /\ wPc[w] = "saveUser"
    /\ \E inj \in BOOLEAN :
         LET n == wIssue[w].number
             r == Exec(inj, SaveUser(tblUsers, RemoteUser(wIssue[w].user)), tblUsers)
         IN  /\ tblUsers' = r.tbl
             /\ tablesChanged' = (tablesChanged \/ r.tbl # tblUsers)
             /\ IF r.err
                THEN ProcReturn(w, Wrap(OtherErr))
                ELSE /\ wPc' = [wPc EXCEPT ![w] = "saveIssue"]
                     /\ UNCHANGED wErr
             /\ Inject(inj, <<"store", n>>)
    /\ UNCHANGED <<envVars, tblRepositories, tblIssues, tblComments, tblLabels,
                   tblIssueLabels, tblSyncMetadata, coordVars, chanVars,
                   wIssue, wIdx, monVars, retryVars, opVars, pageVars>>
    /\ UNCHANGED <<passNo, passStart, joinedAt, ckptWrites, started, completed,
                   savedIssues, remoteChanged, prevStable, everFailed,
                   fetchFailed, commentSteps>>

\* a wrong step: processIssue goes on to the labels and comments without
\* writing the issue row
ProcSaveIssueLeftOut(w) ==
    /\ wPc[w] = "saveIssue"
    /\ \E inj \in BOOLEAN :
         LET n == wIssue[w].number
             r == Exec(inj, StmtOk(tblIssues), tblIssues)
         IN  /\ tblIssues' = r.tbl
             /\ tablesChanged' = (tablesChanged \/ r.tbl # tblIssues)
             /\ IF r.err
                THEN /\ ProcReturn(w, Wrap(OtherErr))
                     /\ UNCHANGED <<wIdx, savedIssues>>
                ELSE /\ wPc' = [wPc EXCEPT ![w] = AfterLabel(wIssue[w], 0)]
                     /\ wIdx' = [wIdx EXCEPT ![w] = 1]
                     /\ savedIssues' = savedIssues \cup {n}
                     /\ UNCHANGED wErr
             /\ Inject(inj, <<"store", n>>)
    /\ UNCHANGED <<envVars, tblRepositories, tblUsers, tblComments, tblLabels,
                   tblIssueLabels, tblSyncMetadata, coordVars, chanVars,
                   wIssue, monVars, retryVars, opVars, pageVars>>
    /\ UNCHANGED <<passNo, passStart, joinedAt, ckptWrites, started, completed,
                   remoteChanged, prevStable, everFailed,
                   fetchFailed, commentSteps>>

\* sync.go 242-246: the issue row
ProcSaveIssue(w) ==
    /\ wPc[w] = "saveIssue"
    /\ \E inj \in BOOLEAN :
         LET n == wIssue[w].number
             r == Exec(inj, SaveIssue(tblIssues, ConvertGitHubIssue(wIssue[w]),
                                      RemoteRepository.id), tblIssues)
         IN  /\ tblIssues' = r.tbl
             /\ tablesChanged' = (tablesChanged \/ r.tbl # tblIssues)
             /\ IF r.err
                THEN /\ ProcReturn(w, Wrap(OtherErr))
                     /\ UNCHANGED <<wIdx, savedIssues>>
                ELSE /\ wPc' = [wPc EXCEPT ![w] = AfterLabel(wIssue[w], 0)]
                     /\ wIdx' = [wIdx EXCEPT ![w] = 1]
                     /\ savedIssues' = savedIssues \cup {n}
                     /\ UNCHANGED wErr
             /\ Inject(inj, <<"store", n>>)
    /\ UNCHANGED <<envVars, tblRepositories, tblUsers, tblComments, tblLabels,
                   tblIssueLabels, tblSyncMetadata, coordVars, chanVars,
                   wIssue, monVars, retryVars, opVars, pageVars>>
    /\ UNCHANGED <<passNo, passStart, joinedAt, ckptWrites, started, completed,
                   remoteChanged, prevStable, everFailed,
                   fetchFailed, commentSteps>>

\* a wrong label loop: a label that cannot be saved fails the issue
ProcSaveLabelReturnsError(w) ==
    /\ wPc[w] = "saveLabel"
    /\ \E inj \in BOOLEAN :
         LET n == wIssue[w].number
             k == wIdx[w]
             s == SaveLabel(tblLabels, ConvertGitHubLabel(IssueLabels(wIssue[w])[k]))
             r == Exec(inj, s, tblLabels)
         IN  /\ tblLabels' = r.tbl
             /\ tablesChanged' = (tablesChanged \/ r.tbl # tblLabels)
             /\ IF r.err
                THEN /\ ProcReturn(w, Wrap(OtherErr))
                     /\ UNCHANGED wIdx
                ELSE /\ wPc' = [wPc EXCEPT ![w] = "saveIssueLabel"]
                     /\ UNCHANGED <<wIdx, wErr>>
             /\ Inject(inj, <<"label", n>>)
    /\ UNCHANGED <<envVars, tblRepositories, tblUsers, tblIssues, tblComments,
                   tblIssueLabels, tblSyncMetadata, coordVars, chanVars,
                   wIssue, monVars, retryVars, opVars, pageVars>>
    /\ UNCHANGED <<passNo, passStart, joinedAt, ckptWrites, started, completed,
                   savedIssues, remoteChanged, prevStable, everFailed,
                   fetchFailed, commentSteps>>

\* sync.go 249-256: a label; a failure is logged and the loop goes on
ProcSaveLabel(w) ==
    /\ wPc[w] = "saveLabel"
    /\ \E inj \in BOOLEAN :
         LET n == wIssue[w].number
             k == wIdx[w]
             s == SaveLabel(tblLabels, ConvertGitHubLabel(IssueLabels(wIssue[w])[k]))
             r == Exec(inj, s, tblLabels)
         IN  /\ tblLabels' = r.tbl
             /\ tablesChanged' = (tablesChanged \/ r.tbl # tblLabels)
             /\ IF r.err
                THEN /\ wPc' = [wPc EXCEPT ![w] = AfterLabel(wIssue[w], k)]
                     /\ wIdx' = [wIdx EXCEPT ![w] = k + 1]
                ELSE /\ wPc' = [wPc EXCEPT ![w] = "saveIssueLabel"]
                     /\ UNCHANGED wIdx
             /\ Inject(inj, <<"label", n>>)
    /\ UNCHANGED <<envVars, tblRepositories, tblUsers, tblIssues, tblComments,
                   tblIssueLabels, tblSyncMetadata, coordVars, chanVars,
                   wIssue, wErr, monVars, retryVars, opVars, pageVars>>
    /\ UNCHANGED <<passNo, passStart, joinedAt, ckptWrites, started, completed,
                   savedIssues, remoteChanged, prevStable, everFailed,
                   fetchFailed, commentSteps>>

\* sync.go 258-262: the association of the label with the issue
ProcSaveIssueLabel(w) ==
    /\ wPc[w] = "saveIssueLabel"
    /\ \E inj \in BOOLEAN :
         LET n == wIssue[w].number
             k == wIdx[w]
             labelID == ConvertGitHubLabel(IssueLabels(wIssue[w])[k]).id
             r == Exec(inj, SaveIssueLabel(tblIssueLabels, wIssue[w].id, labelID),
                       tblIssueLabels)
         IN  /\ tblIssueLabels' = r.tbl
             /\ tablesChanged' = (tablesChanged \/ r.tbl # tblIssueLabels)
             /\ wPc' = [wPc EXCEPT ![w] = AfterLabel(wIssue[w], k)]
             /\ wIdx' = [wIdx EXCEPT ![w] = k + 1]
             /\ Inject(inj, <<"label", n>>)
    /\ UNCHANGED <<envVars, tblRepositories, tblUsers, tblIssues, tblComments,
                   tblLabels, tblSyncMetadata, coordVars, chanVars,
                   wIssue, wErr, monVars, retryVars, opVars, pageVars>>
    /\ UNCHANGED <<passNo, passStart, joinedAt, ckptWrites, started, completed,
                   savedIssues, remoteChanged, prevStable, everFailed,
                   fetchFailed, commentSteps>>

\* a wrong processIssue: a failed fetch of the comments is not returned
ProcGetCommentsSwallowsError(w) ==
    /\ wPc[w] = "getComments"
    /\ \E err \in CallOutcomes(workerCtxDone) :
         LET n == wIssue[w].number IN
         /\ IF err = NilErr
            THEN /\ wPc' = [wPc EXCEPT ![w] = AfterComment(n, 0)]
                 /\ wIdx' = [wIdx EXCEPT ![w] = 1]
                 /\ UNCHANGED wErr
            ELSE /\ ProcReturn(w, NilErr)
                 /\ UNCHANGED wIdx
         /\ fetchFailed' = IF err = NilErr THEN fetchFailed ELSE fetchFailed \cup {n}
         /\ Inject(err \notin {NilErr, CtxErr}, <<"comments", n>>)
    /\ UNCHANGED <<envVars, storeVars, coordVars, chanVars, wIssue, monVars,
                   retryVars, opVars, pageVars>>
    /\ UNCHANGED <<passNo, passStart, joinedAt, ckptWrites, started, completed,
                   savedIssues, tablesChanged, remoteChanged, prevStable, everFailed,
                   commentSteps>>

\* sync.go 266-269: the comments of the issue are fetched
ProcGetComments(w) ==
    /\ wPc[w] = "getComments"
    /\ \E err \in CallOutcomes(workerCtxDone) :
         LET n == wIssue[w].number IN
         /\ IF err = NilErr
            THEN /\ wPc' = [wPc EXCEPT ![w] = AfterComment(n, 0)]
                 /\ wIdx' = [wIdx EXCEPT ![w] = 1]
                 /\ UNCHANGED wErr
            ELSE /\ ProcReturn(w, Wrap(err))
                 /\ UNCHANGED wIdx
         /\ fetchFailed' = IF err = NilErr THEN fetchFailed ELSE fetchFailed \cup {n}
         /\ Inject(err \notin {NilErr, CtxErr}, <<"comments", n>>)
    /\ UNCHANGED <<envVars, storeVars, coordVars, chanVars, wIssue, monVars,
                   retryVars, opVars, pageVars>>
    /\ UNCHANGED <<passNo, passStart, joinedAt, ckptWrites, started, completed,
                   savedIssues, tablesChanged, remoteChanged, prevStable, everFailed,
                   commentSteps>>

\* sync.go 273-278: the author of a comment
ProcSaveCommentUser(w) ==
    /\ wPc[w] = "saveCommentUser"
    /\ \E inj \in BOOLEAN :
         LET n == wIssue[w].number
             c == IssueComments(n)[wIdx[w]]
             r == Exec(inj, SaveUser(tblUsers, RemoteUser(CommentAuthor(c))), tblUsers)
         IN  /\ tblUsers' = r.tbl
             /\ tablesChanged' = (tablesChanged \/ r.tbl # tblUsers)
             /\ IF r.err
                THEN ProcReturn(w, Wrap(OtherErr))
                ELSE /\ wPc' = [wPc EXCEPT ![w] = "saveComment"]
                     /\ UNCHANGED wErr
             /\ commentSteps' = commentSteps \cup {n}
             /\ Inject(inj, <<"store", n>>)
    /\ UNCHANGED <<envVars, tblRepositories, tblIssues, tblComments, tblLabels,
                   tblIssueLabels, tblSyncMetadata, coordVars, chanVars,
                   wIssue, wIdx, monVars, retryVars, opVars, pageVars>>
    /\ UNCHANGED <<passNo, passStart, joinedAt, ckptWrites, started, completed,
                   savedIssues, remoteChanged, prevStable, everFailed,
                   fetchFailed>>

\* sync.go 281-284: a comment
ProcSaveComment(w) ==
    /\ wPc[w] = "saveComment"
    /\ \E inj \in BOOLEAN :
         LET n == wIssue[w].number
             k == wIdx[w]
             c == IssueComments(n)[k]
             r == Exec(inj, SaveComment(tblComments,
                                        ConvertGitHubComment(c, wIssue[w].id)),
                       tblComments)
         IN  /\ tblComments' = r.tbl
             /\ tablesChanged' = (tablesChanged \/ r.tbl # tblComments)
             /\ IF r.err
                THEN /\ ProcReturn(w, Wrap(OtherErr))
                     /\ UNCHANGED wIdx
                ELSE /\ wPc' = [wPc EXCEPT ![w] = AfterComment(n, k)]
                     /\ wIdx' = [wIdx EXCEPT ![w] = k + 1]
                     /\ UNCHANGED wErr
             /\ commentSteps' = commentSteps \cup {n}
             /\ Inject(inj, <<"store", n>>)
    /\ UNCHANGED <<envVars, tblRepositories, tblUsers, tblIssues, tblLabels,
                   tblIssueLabels, tblSyncMetadata, coordVars, chanVars,
                   wIssue, monVars, retryVars, opVars, pageVars>>
    /\ UNCHANGED <<passNo, passStart, joinedAt, ckptWrites, started, completed,
                   savedIssues, remoteChanged, prevStable, everFailed,
                   fetchFailed>>

\* a wrong worker: it signals the monitor for every error
WorkerReportSignalsAll(w) ==
    /\ wPc[w] = "report"
    /\ IF wErr[w] # NilErr
       THEN /\ Len(errorsChan) < Len(issues)
            /\ errorsChan' = Append(errorsChan, wErr[w])
            /\ rateLimitChan' =
                 IF Len(rateLimitChan) < workers
                 THEN Append(rateLimitChan,
                             IF IsRateLimit(wErr[w]) THEN wErr[w].ResetTime ELSE 0)
                 ELSE rateLimitChan
            /\ UNCHANGED completed
       ELSE /\ completed' = completed \cup {wIssue[w].number}
            /\ UNCHANGED <<errorsChan, rateLimitChan>>
    /\ processed' = processed + 1
    /\ wPc' = [wPc EXCEPT ![w] = "recv"]
    /\ wIssue' = [wIssue EXCEPT ![w] = NoIssue]
    /\ wIdx' = [wIdx EXCEPT ![w] = 0]
    /\ wErr' = [wErr EXCEPT ![w] = NilErr]
    /\ UNCHANGED <<envVars, storeVars, coordVars, issuesChan, issuesClosed,
                   errorsClosed, rateLimitClosed, monVars, retryVars, opVars, pageVars>>
    /\ UNCHANGED <<passNo, passStart, joinedAt, ckptWrites, faults, events, started,
                   savedIssues, tablesChanged, remoteChanged, prevStable, everFailed,
                   fetchFailed, commentSteps>>

\* a wrong worker: it returns after an issue that failed
WorkerReportStopsOnError(w) ==
    /\ wPc[w] = "report"
    /\ IF wErr[w] # NilErr
       THEN /\ Len(errorsChan) < Len(issues)
            /\ errorsChan' = Append(errorsChan, wErr[w])
            /\ rateLimitChan' =
                 IF IsRateLimit(wErr[w]) /\ Len(rateLimitChan) < workers
                 THEN Append(rateLimitChan, wErr[w].ResetTime)
                 ELSE rateLimitChan
            /\ UNCHANGED completed
       ELSE /\ completed' = completed \cup {wIssue[w].number}
            /\ UNCHANGED <<errorsChan, rateLimitChan>>
    /\ processed' = processed + 1
    /\ wPc' = [wPc EXCEPT ![w] = IF wErr[w] # NilErr THEN "exit" ELSE "recv"]
    /\ wIssue' = [wIssue EXCEPT ![w] = NoIssue]
    /\ wIdx' = [wIdx EXCEPT ![w] = 0]
    /\ wErr' = [wErr EXCEPT ![w] = NilErr]
    /\ UNCHANGED <<envVars, storeVars, coordVars, issuesChan, issuesClosed,
                   errorsClosed, rateLimitClosed, monVars, retryVars, opVars, pageVars>>
    /\ UNCHANGED <<passNo, passStart, joinedAt, ckptWrites, faults, events, started,
                   savedIssues, tablesChanged, remoteChanged, prevStable, everFailed,
                   fetchFailed, commentSteps>>

\* a wrong report: a rate-limit error is signalled to the monitor and not
\* recorded in errorsChan
WorkerReportSignalOnly(w) ==
    /\ wPc[w] = "report"
    /\ IF wErr[w] # NilErr
       THEN /\ Len(errorsChan) < Len(issues)
            /\ errorsChan' = IF IsRateLimit(wErr[w]) THEN errorsChan
                             ELSE Append(errorsChan, wErr[w])
            /\ rateLimitChan' =
                 IF IsRateLimit(wErr[w]) /\ Len(rateLimitChan) < workers
                 THEN Append(rateLimitChan, wErr[w].ResetTime)
                 ELSE rateLimitChan
            /\ UNCHANGED completed
       ELSE /\ completed' = completed \cup {wIssue[w].number}
            /\ UNCHANGED <<errorsChan, rateLimitChan>>
    /\ processed' = processed + 1
    /\ wPc' = [wPc EXCEPT ![w] = "recv"]
    /\ wIssue' = [wIssue EXCEPT ![w] = NoIssue]
    /\ wIdx' = [wIdx EXCEPT ![w] = 0]
    /\ wErr' = [wErr EXCEPT ![w] = NilErr]
    /\ UNCHANGED <<envVars, storeVars, coordVars, issuesChan, issuesClosed,
                   errorsClosed, rateLimitClosed, monVars, retryVars, opVars, pageVars>>
    /\ UNCHANGED <<passNo, passStart, joinedAt, ckptWrites, faults, events, started,
                   savedIssues, tablesChanged, remoteChanged, prevStable, everFailed,
                   fetchFailed, commentSteps>>

\* sync.go 133-171: what the worker does with the result of processIssue.
\* A rate-limit error is offered to the monitor without blocking; every
\* error goes to errorsChan; the progress counter advances either way.
\* The locals of the iteration go out of scope.
WorkerReport(w) ==
    /\ wPc[w] = "report"
    /\ IF wErr[w] # NilErr
       THEN /\ Len(errorsChan) < Len(issues)
            /\ errorsChan' = Append(errorsChan, wErr[w])
            /\ rateLimitChan' =
                 IF IsRateLimit(wErr[w]) /\ Len(rateLimitChan) < workers
                 THEN Append(rateLimitChan, wErr[w].ResetTime)
                 ELSE rateLimitChan
            /\ UNCHANGED completed
       ELSE /\ completed' = completed \cup {wIssue[w].number}
            /\ UNCHANGED <<errorsChan, rateLimitChan>>
    /\ processed' = processed + 1
    /\ wPc' = [wPc EXCEPT ![w] = "recv"]
    /\ wIssue' = [wIssue EXCEPT ![w] = NoIssue]
    /\ wIdx' = [wIdx EXCEPT ![w] = 0]
    /\ wErr' = [wErr EXCEPT ![w] = NilErr]
    /\ UNCHANGED <<envVars, storeVars, coordVars, issuesChan, issuesClosed,
                   errorsClosed, rateLimitClosed, monVars, retryVars, opVars, pageVars>>
    /\ UNCHANGED <<passNo, passStart, joinedAt, ckptWrites, faults, events, started,
                   savedIssues, tablesChanged, remoteChanged, prevStable, everFailed,
                   fetchFailed, commentSteps>>

----
(* the rate-limit monitor goroutine (sync.go 177-195) *)

\* sync.go 178-193: a reset time is taken from rateLimitChan, the wait is
\* computed from the clock and time.Sleep is entered; or the range ends
MonitorReceive ==
    /\ monPc = "recv"
    /\ \/ /\ rateLimitChan # <<>>
          /\ rateLimitChan' = Tail(rateLimitChan)
          /\ monPc' = "sleep"
          /\ \E t \in ClockReads :
               /\ now' = t
               /\ monWake' = t + MonitorWaitTime(Head(rateLimitChan), t)
       \/ /\ rateLimitChan = <<>>
          /\ rateLimitClosed
          /\ monPc' = "exit"
          /\ UNCHANGED <<rateLimitChan, now, monWake>>
    /\ UNCHANGED <<otherEnv, storeVars, coordVars, issuesChan, issuesClosed,
                   errorsChan, errorsClosed, rateLimitClosed, processed,
                   workerVars, histVars, retryVars, opVars, pageVars>>

\* sync.go 193: time.Sleep(waitTime) returns, not before the wait is over;
\* nothing else ends it
MonitorWake ==
    /\ monPc = "sleep"
    /\ \E t \in ClockReads : t >= monWake /\ now' = t
    /\ monPc' = "recv"
    /\ monWake' = 0
    /\ UNCHANGED <<otherEnv, storeVars, coordVars, chanVars, workerVars,
                   histVars, retryVars, opVars, pageVars>>

Next ==
    \/ \E n \in Issues : RemoteUpdate(n)
    \/ Cancel
    \/ StartPass
    \/ CoordGetRepository
    \/ CoordSaveOwner
    \/ CoordSaveRepository
    \/ CoordGetLastSyncTime
    \/ CoordGetIssues
    \/ CoordEmptyCheckpoint
    \/ CoordSpawn
    \/ CoordSend
    \/ CoordClose
    \/ CoordJoin
    \/ CoordCheckpoint
    \/ \E w \in Workers : WorkerReceive(w)
    \/ \E w \in Workers : ProcSaveUser(w)
    \/ \E w \in Workers : ProcSaveIssue(w)
    \/ \E w \in Workers : ProcSaveLabel(w)
    \/ \E w \in Workers : ProcSaveIssueLabel(w)
    \/ \E w \in Workers : ProcGetComments(w)
    \/ \E w \in Workers : ProcSaveCommentUser(w)
    \/ \E w \in Workers : ProcSaveComment(w)
    \/ \E w \in Workers : WorkerReport(w)
    \/ MonitorReceive
    \/ MonitorWake

\* the retry loop is not running while SyncRepository is observed
RetryIdle ==
    /\ retryPc = "done" /\ retryCount = 0 /\ waitTime = 0
    /\ lastErr = NilErr /\ lastCall = NoCall /\ retryErr = NilErr
    /\ attempts = 0 /\ waits = 0 /\ clock = StartClock
    /\ retryCtxDone = FALSE

\* no store operation is observed alone
OpIdle == opName = "none" /\ opArg = <<0, 0, 0>> /\ opErr = FALSE /\ opId = 0

\* no paged fetch is observed alone
PageIdle ==
    /\ pgName = "none" /\ pgRemote = 0 /\ pgSize = 0 /\ pgPage = 0
    /\ pgAll = <<>> /\ pgMore = <<>> /\ pgReqs = 0 /\ pgPc = "idle"
    /\ pgErr = FALSE /\ pgWarned = FALSE

Init == InitPass /\ RetryIdle /\ OpIdle /\ PageIdle

Spec == Init /\ [][Next]_vars

-----------------------------------------------------------------------------
(***************************************************************************)
(* Scheduling.  The Go scheduler runs every goroutine that can take a      *)
(* step: the goroutine of SyncRepository and each worker goroutine are     *)
(* given weak fairness.  Nothing is assumed about the environment (remote  *)
(* edits, cancellation, injected failures) or about the monitor.           *)
(***************************************************************************)

\* a step of the goroutine that runs SyncRepository
CoordStep ==
    \/ CoordGetRepository
    \/ CoordSaveOwner
    \/ CoordSaveRepository
    \/ CoordGetLastSyncTime
    \/ CoordGetIssues
    \/ CoordEmptyCheckpoint
    \/ CoordSpawn
    \/ CoordSend
    \/ CoordClose
    \/ CoordJoin
    \/ CoordCheckpoint

\* a step of worker goroutine w
WorkerStep(w) ==
    \/ WorkerReceive(w)
    \/ ProcSaveUser(w)
    \/ ProcSaveIssue(w)
    \/ ProcSaveLabel(w)
    \/ ProcSaveIssueLabel(w)
    \/ ProcGetComments(w)
    \/ ProcSaveCommentUser(w)
    \/ ProcSaveComment(w)
    \/ WorkerReport(w)

Fairness ==
    /\ WF_vars(CoordStep)
    /\ \A w \in Workers : WF_vars(WorkerStep(w))

SpecLive == Init /\ [][Next]_vars /\ Fairness

-----------------------------------------------------------------------------
(* one call of executeWithRetry, observed alone *)

InitRetry ==
    /\ retryPc = "check"
    /\ retryCount = 0
    /\ waitTime = 0
    /\ lastErr = NilErr
    /\ lastCall = NoCall
    /\ retryErr = NilErr
    /\ attempts = 0
    /\ waits = 0
    /\ clock = StartClock
    /\ retryCtxDone \in BOOLEAN
    /\ InitPass
    /\ workers = 1
    /\ OpIdle /\ PageIdle

\* the calling context is cancelled (by the caller, at any moment)
RetryCancel ==
    /\ retryPc # "done"
    /\ ~retryCtxDone
    /\ retryCtxDone' = TRUE
    /\ UNCHANGED <<retryPc, retryCount, waitTime, lastErr, lastCall, retryErr,
                   attempts, waits, clock>>
    /\ UNCHANGED <<passVars, opVars, pageVars>>

\* a wrong loop head: the context is not looked at before an attempt
RetryCheckIgnoresCtx ==
    /\ retryPc = "check"
    /\ retryPc' = "call"
    /\ UNCHANGED <<retryCount, waitTime, lastErr, lastCall, retryErr,
                   attempts, waits, clock, retryCtxDone>>
    /\ UNCHANGED <<passVars, opVars, pageVars>>

\* github.go 268-271: if ctx.Err() != nil { return ctx.Err() }
RetryCheck ==
    /\ retryPc = "check"
    /\ IF retryCtxDone
       THEN /\ retryPc' = "done"
            /\ retryErr' = CtxErr
       ELSE /\ retryPc' = "call"
            /\ UNCHANGED retryErr
    /\ UNCHANGED <<retryCount, waitTime, lastErr, lastCall,
                   attempts, waits, clock, retryCtxDone>>
    /\ UNCHANGED <<passVars, opVars, pageVars>>

\* a wrong attempt: every error is retried, not only rate-limit errors
RetryCallRetriesAll ==
    /\ retryPc = "call"
    /\ \E out \in RawOutcomes(clock) :
         LET err == HandleRateLimit(out, clock) IN
         /\ lastCall' = out
         /\ lastErr' = err
         /\ attempts' = attempts + 1
         /\ IF err.kind = "nil"
            THEN /\ retryPc' = "done"
                 /\ retryErr' = err
                 /\ UNCHANGED waitTime
            ELSE /\ retryPc' = "wait"
                 /\ waitTime' = WaitTimeFor(IF IsRateLimit(err) THEN err.ResetTime ELSE clock, clock)
                 /\ UNCHANGED retryErr
    /\ UNCHANGED <<retryCount, waits, clock, retryCtxDone>>
    /\ UNCHANGED <<passVars, opVars, pageVars>>

\* a wrong attempt: the retry counter is looked at before the wait, so the
\* last rate-limited attempt returns the terminal error without waiting
RetryCallCountsBeforeWait ==
    /\ retryPc = "call"
    /\ \E out \in RawOutcomes(clock) :
         LET err == HandleRateLimit(out, clock) IN
         /\ lastCall' = out
         /\ lastErr' = err
         /\ attempts' = attempts + 1
         /\ IF err.kind = "nil" \/ ~IsRateLimit(err)
            THEN /\ retryPc' = "done"
                 /\ retryErr' = err
                 /\ UNCHANGED waitTime
            ELSE IF retryCount + 1 >= maxRetries
            THEN /\ retryPc' = "done"
                 /\ retryErr' = Wrap(err)
                 /\ UNCHANGED waitTime
            ELSE /\ retryPc' = "wait"
                 /\ waitTime' = WaitTimeFor(err.ResetTime, clock)
                 /\ UNCHANGED retryErr
    /\ UNCHANGED <<retryCount, waits, clock, retryCtxDone>>
    /\ UNCHANGED <<passVars, opVars, pageVars>>

\* github.go 273-296: _, err := fn(); return unless it is a rate-limit
\* error; otherwise compute waitTime
RetryCall ==
    /\ retryPc = "call"
    /\ \E out \in RawOutcomes(clock) :
         LET err == HandleRateLimit(out, clock) IN
         /\ lastCall' = out
         /\ lastErr' = err
         /\ attempts' = attempts + 1
         /\ IF err.kind = "nil" \/ ~IsRateLimit(err)
            THEN /\ retryPc' = "done"
                 /\ retryErr' = err
                 /\ UNCHANGED waitTime
            ELSE /\ retryPc' = "wait"
                 /\ waitTime' = WaitTimeFor(err.ResetTime, clock)
                 /\ UNCHANGED retryErr
    /\ UNCHANGED <<retryCount, waits, clock, retryCtxDone>>
    /\ UNCHANGED <<passVars, opVars, pageVars>>

\* github.go 303-305: case <-ctx.Done(): return ctx.Err()
RetryWaitCancelled ==
    /\ retryPc = "wait"
    /\ retryCtxDone
    /\ retryPc' = "done"
    /\ retryErr' = CtxErr
    /\ UNCHANGED <<retryCount, waitTime, lastErr, lastCall,
                   attempts, waits, clock, retryCtxDone>>
    /\ UNCHANGED <<passVars, opVars, pageVars>>

\* a wrong bound: retryCount > maxRetries
RetryWaitElapsedOffByOne ==
    /\ retryPc = "wait"
    /\ ~retryCtxDone
    /\ clock' = clock + waitTime
    /\ waits' = waits + 1
    /\ retryCount' = retryCount + 1
    /\ IF retryCount' > maxRetries
       THEN /\ retryPc' = "done"
            /\ retryErr' = Wrap(lastErr)
       ELSE /\ retryPc' = "check"
            /\ UNCHANGED retryErr
    /\ UNCHANGED <<waitTime, lastErr, lastCall, attempts, retryCtxDone>>
    /\ UNCHANGED <<passVars, opVars, pageVars>>

\* a wrong terminal error: the last failure is not wrapped with %w
RetryWaitElapsedLosesChain ==
    /\ retryPc = "wait"
    /\ ~retryCtxDone
    /\ clock' = clock + waitTime
    /\ waits' = waits + 1
    /\ retryCount' = retryCount + 1
    /\ IF retryCount' >= maxRetries
       THEN /\ retryPc' = "done"
            /\ retryErr' = WrapLosesChain(lastErr)
       ELSE /\ retryPc' = "check"
            /\ UNCHANGED retryErr
    /\ UNCHANGED <<waitTime, lastErr, lastCall, attempts, retryCtxDone>>
    /\ UNCHANGED <<passVars, opVars, pageVars>>

\* github.go 306-315: case <-time.After(waitTime); retryCount++;
\* if retryCount >= maxRetries { return fmt.Errorf("...%w", err) }.
\* A select blocked on ctx.Done() and the timer is woken by whichever
\* becomes ready first: the timer wins only while the context is live.
RetryWaitElapsed ==
    /\ retryPc = "wait"
    /\ ~retryCtxDone
    /\ clock' = clock + waitTime
    /\ waits' = waits + 1
    /\ retryCount' = retryCount + 1
    /\ IF retryCount' >= maxRetries
       THEN /\ retryPc' = "done"
            /\ retryErr' = Wrap(lastErr)
       ELSE /\ retryPc' = "check"
            /\ UNCHANGED retryErr
    /\ UNCHANGED <<waitTime, lastErr, lastCall, attempts, retryCtxDone>>
    /\ UNCHANGED <<passVars, opVars, pageVars>>

NextRetry ==
    \/ RetryCancel
    \/ RetryCheck
    \/ RetryCall
    \/ RetryWaitCancelled
    \/ RetryWaitElapsed

SpecRetry == InitRetry /\ [][NextRetry]_vars

-----------------------------------------------------------------------------
(***************************************************************************)
(* The upserts of db.go applied to a store state, observed alone: any      *)
(* user, any label and any issue-label pair, with ids, logins, avatars,    *)
(* names and colours drawn from 1..MaxKey, is saved into the store the     *)
(* earlier saves left.                                                     *)
(***************************************************************************)
MaxKey == 2
Keys == 1..MaxKey

InitStore == InitPass /\ workers = 1 /\ RetryIdle /\ OpIdle /\ PageIdle

\* db.SaveUser(user) is called (db.go 123-138)
StoreSaveUser ==
    /\ \E id \in Keys, login \in Keys, avatar \in Keys :
         LET r == SaveUser(tblUsers, [id |-> id, login |-> login,
                                      avatar_url |-> avatar])
         IN  /\ tblUsers' = r.tbl
             /\ opName' = "SaveUser"
             /\ opArg' = <<id, login, avatar>>
             /\ opErr' = r.err
             /\ opId' = 0
    /\ UNCHANGED <<envVars, tblRepositories, tblIssues, tblComments, tblLabels,
                   tblIssueLabels, tblSyncMetadata, coordVars, chanVars,
                   workerVars, monVars, histVars, retryVars, pageVars>>

\* db.SaveLabel(label) is called (db.go 203-232)
StoreSaveLabel ==
    /\ \E id \in Keys, name \in Keys, color \in Keys :
         LET r == SaveLabel(tblLabels, [id |-> id, name |-> name, color |-> color])
         IN  /\ tblLabels' = r.tbl
             /\ opName' = "SaveLabel"
             /\ opArg' = <<id, name, color>>
             /\ opErr' = r.err
             /\ opId' = r.id
    /\ UNCHANGED <<envVars, tblRepositories, tblUsers, tblIssues, tblComments,
                   tblIssueLabels, tblSyncMetadata, coordVars, chanVars,
                   workerVars, monVars, histVars, retryVars, pageVars>>

\* db.SaveIssueLabel(issueID, labelID) is called (db.go 235-248); the
\* third field of opArg records whether the pair was stored before the call
StoreSaveIssueLabel ==
    /\ \E issueID \in Keys, labelID \in Keys :
         LET r == SaveIssueLabel(tblIssueLabels, issueID, labelID)
             held == [issue_id |-> issueID, label_id |-> labelID]
                        \in tblIssueLabels
         IN  /\ tblIssueLabels' = r.tbl
             /\ opName' = "SaveIssueLabel"
             /\ opArg' = <<issueID, labelID, IF held THEN 1 ELSE 0>>
             /\ opErr' = r.err
             /\ opId' = 0
    /\ UNCHANGED <<envVars, tblRepositories, tblUsers, tblIssues, tblComments,
                   tblLabels, tblSyncMetadata, coordVars, chanVars,
                   workerVars, monVars, histVars, retryVars, pageVars>>

NextStore ==
    \/ StoreSaveUser
    \/ StoreSaveLabel
    \/ StoreSaveIssueLabel

SpecStore == InitStore /\ [][NextStore]_vars

-----------------------------------------------------------------------------
(***************************************************************************)
(* SaveIssue applied to the issues table, observed alone: any issue, with  *)
(* id, number, repository and instants drawn from 1..MaxKey and one of    *)
(* two contents, each with its own author, is saved into the table the     *)
(* earlier saves left.                                                     *)
(***************************************************************************)
\* the columns title, body, state, closed_at and is_pull_request of a row
IssueContents ==
    {[title |-> 1, body |-> 1, state |-> 1, closed_at |-> 0,
      is_pull_request |-> FALSE],
     [title |-> 2, body |-> 2, state |-> 2, closed_at |-> 2,
      is_pull_request |-> TRUE]}

\* the value of opArg[2] when the table held no row for the issue
NoRow == [id |-> 0]

\* db.SaveIssue(issue, repoID) is called (db.go 140-174); opArg records the
\* incoming issue, the row the table held for its (repository, number)
\* before the call, and the number of rows before the call
StoreSaveIssue ==
    /\ \E id \in Keys, number \in Keys, repoID \in Keys,
          created \in Keys, updated \in Keys, content \in IssueContents :
         LET issue == [id |-> id, number |-> number, content |-> content,
                       created_at |-> created, updated_at |-> updated,
                       user_id |-> content.title, repository_id |-> 0]
             held == {r \in tblIssues : r.repository_id = repoID
                                        /\ r.number = number}
             r == SaveIssue(tblIssues, issue, repoID)
         IN  /\ tblIssues' = r.tbl
             /\ opName' = "SaveIssue"
             /\ opArg' = <<[issue EXCEPT !.repository_id = repoID],
                           IF held = {} THEN NoRow ELSE CHOOSE h \in held : TRUE,
                           Cardinality(tblIssues)>>
             /\ opErr' = r.err
             /\ opId' = 0
    /\ UNCHANGED <<envVars, tblRepositories, tblUsers, tblComments, tblLabels,
                   tblIssueLabels, tblSyncMetadata, coordVars, chanVars,
                   workerVars, monVars, histVars, retryVars, pageVars>>

NextIssueRows == StoreSaveIssue

SpecIssueRows == InitStore /\ [][NextIssueRows]_vars

-----------------------------------------------------------------------------
(***************************************************************************)
(* HandleGitHubID applied to one identifier, observed alone: the input is  *)
(* any value of the signed range, kept in opArg[1]; the result is opId.    *)
(***************************************************************************)
InitId ==
    /\ InitPass /\ workers = 1 /\ RetryIdle /\ PageIdle
    /\ opName = "none"
    /\ \E id \in SignedRange : opArg = <<id, 0, 0>>
    /\ opErr = FALSE
    /\ opId = 0

\* HandleGitHubID(id) is called and returns (github.go 519-534)
IdNormalize ==
    /\ opName = "none"
    /\ opName' = "HandleGitHubID"
    /\ opId' = HandleGitHubID(opArg[1])
    /\ UNCHANGED <<opArg, opErr, retryVars, passVars, pageVars>>

NextId == IdNormalize

SpecId == InitId /\ [][NextId]_vars

-----------------------------------------------------------------------------
(***************************************************************************)
(* The checkpoint writes of successive passes on two repositories,         *)
(* observed alone: a pass that ends reads the clock and calls              *)
(* UpdateLastSyncTime with its repository's full name and that instant     *)
(* (sync.go 87 and 224); the statement may fail.                           *)
(***************************************************************************)
RepoNames == {fullName, "o/q", "p/r"}

\* sync.go 84-91 and 223-226 with db.go 267-282: the last step of a pass on
\* repository name; opArg records the name, the instant and the checkpoint
\* the repository had before the call
StoreUpdateLastSyncTime ==
    /\ \E name \in RepoNames, t \in ClockReads, inj \in BOOLEAN :
         LET r == Exec(inj, UpdateLastSyncTime(tblSyncMetadata, name, t),
                       tblSyncMetadata)
         IN  /\ now' = t
             /\ tblSyncMetadata' = r.tbl
             /\ opName' = "UpdateLastSyncTime"
             /\ opArg' = <<name, t, GetLastSyncTime(tblSyncMetadata, name)>>
             /\ opErr' = r.err
             /\ opId' = 0
    /\ UNCHANGED <<otherEnv, tblRepositories, tblUsers, tblIssues, tblComments,
                   tblLabels, tblIssueLabels, coordVars, chanVars,
                   workerVars, monVars, histVars, retryVars, pageVars>>

NextCheckpoints == StoreUpdateLastSyncTime

SpecCheckpoints == InitStore /\ [][NextCheckpoints]_vars

-----------------------------------------------------------------------------
(***************************************************************************)
(* One paged fetch, observed alone.  The remote list holds the items       *)
(* 1..pgRemote, in that order, and does not change during the call.  The   *)
(* page size of the code, 100, is scaled to 1..MaxPageSize; the nested     *)
(* comment page of the graph query, 50, to half of it.                     *)
(***************************************************************************)
MaxItems == 7
MaxPageSize == 3

RestCalls == {"GetIssues", "GetIssueComments"}
GraphCall == "fetchIssuesBatch"

\* the remote list of n items
Items(n) == [i \in 1..n |-> i]

\* ListByRepo / ListComments with opts.Page = page and opts.PerPage = size
PageOf(n, size, page) ==
    LET lo == (page - 1) * size + 1
        hi == Min(page * size, n)
    IN  IF lo > hi THEN <<>> ELSE SubSeq(Items(n), lo, hi)

\* a wrong loop end: only an empty page ends the loop
LastPageOnlyEmpty(items, size) == Len(items) = 0

\* github.go 388-390 and 432-434: len(issues) < opts.PerPage
LastPage(items, size) == Len(items) < size

\* comments(first: size, after: cursor) of the graph API: the nodes of the
\* page and its PageInfo
GraphPage(n, size, cursor) ==
    LET hi == Min(cursor + size, n) IN
    [Nodes |-> IF cursor + 1 > hi THEN <<>> ELSE SubSeq(Items(n), cursor + 1, hi),
     EndCursor |-> hi,
     HasNextPage |-> hi < n]

\* commentsPerPage of the batch query (github.go 775), half the page size
NestedSize(size) == (size + 1) \div 2

InitPages ==
    /\ InitPass /\ workers = 1 /\ RetryIdle /\ OpIdle
    /\ pgName \in RestCalls \cup {GraphCall}
    /\ pgRemote \in 0..MaxItems
    /\ pgSize \in 1..MaxPageSize
    /\ pgPage = IF pgName \in RestCalls THEN 1 ELSE 0
    /\ pgAll = <<>>
    /\ pgMore = <<>>
    /\ pgReqs = 0
    /\ pgPc = IF pgName \in RestCalls THEN "loop" ELSE "nested"
    /\ pgErr = FALSE
    /\ pgWarned = FALSE

\* github.go 366-392 and 409-435: one iteration of the page loop whose
\* request succeeds
RestFetchPage ==
    /\ pgName \in RestCalls
    /\ pgPc = "loop"
    /\ LET items == PageOf(pgRemote, pgSize, pgPage) IN
       /\ pgAll' = pgAll \o items
       /\ pgReqs' = pgReqs + 1
       /\ IF LastPage(items, pgSize)
          THEN pgPc' = "returned" /\ UNCHANGED pgPage
          ELSE pgPage' = pgPage + 1 /\ UNCHANGED pgPc
    /\ UNCHANGED <<pgName, pgRemote, pgSize, pgMore, pgErr, pgWarned>>
    /\ UNCHANGED <<retryVars, passVars, opVars>>

\* github.go 382-384 and 425-427: the request of the page fails and the
\* function returns nil and the error
RestPageFails ==
    /\ pgName \in RestCalls
    /\ pgPc = "loop"
    /\ pgAll' = <<>>
    /\ pgReqs' = pgReqs + 1
    /\ pgErr' = TRUE
    /\ pgPc' = "returned"
    /\ UNCHANGED <<pgName, pgRemote, pgSize, pgPage, pgMore, pgWarned>>
    /\ UNCHANGED <<retryVars, passVars, opVars>>

\* github.go 778-780: the batch query fails, fetchIssuesBatch returns the
\* error
GraphBatchFails ==
    /\ pgName = GraphCall
    /\ pgPc = "nested"
    /\ pgReqs' = pgReqs + 1
    /\ pgErr' = TRUE
    /\ pgPc' = "returned"
    /\ UNCHANGED <<pgName, pgRemote, pgSize, pgPage, pgAll, pgMore, pgWarned>>
    /\ UNCHANGED <<retryVars, passVars, opVars>>

\* github.go 820-841 and 855-857: the comments nested in an issue of the
\* batch are converted; a next page sends fetchIssuesBatch into
\* fetchAdditionalComments with the page's end cursor
GraphNestedPage ==
    /\ pgName = GraphCall
    /\ pgPc = "nested"
    /\ LET pg == GraphPage(pgRemote, NestedSize(pgSize), 0) IN
       /\ pgAll' = pg.Nodes
       /\ pgPage' = pg.EndCursor
       /\ pgPc' = IF pg.HasNextPage THEN "more" ELSE "returned"
    /\ pgReqs' = pgReqs + 1
    /\ UNCHANGED <<pgName, pgRemote, pgSize, pgMore, pgErr, pgWarned>>
    /\ UNCHANGED <<retryVars, passVars, opVars>>

\* github.go 896-955: one iteration of the loop of fetchAdditionalComments
\* whose query succeeds; after the last one the caller appends what the
\* loop collected (github.go 862-864)
GraphFollowUp ==
    /\ pgName = GraphCall
    /\ pgPc = "more"
    /\ LET pg == GraphPage(pgRemote, pgSize, pgPage) IN
       /\ pgMore' = pgMore \o pg.Nodes
       /\ IF pg.HasNextPage
          THEN /\ pgPage' = pg.EndCursor
               /\ UNCHANGED <<pgPc, pgAll>>
          ELSE /\ pgPc' = "returned"
               /\ pgAll' = pgAll \o pgMore'
               /\ UNCHANGED pgPage
    /\ pgReqs' = pgReqs + 1
    /\ UNCHANGED <<pgName, pgRemote, pgSize, pgErr, pgWarned>>
    /\ UNCHANGED <<retryVars, passVars, opVars>>

\* github.go 920-922 and 859-861: the query fails, fetchAdditionalComments
\* returns the error, and fetchIssuesBatch logs a warning and goes on with
\* the comments of the nested page
GraphFollowUpFails ==
    /\ pgName = GraphCall
    /\ pgPc = "more"
    /\ pgReqs' = pgReqs + 1
    /\ pgWarned' = TRUE
    /\ pgPc' = "returned"
    /\ UNCHANGED <<pgName, pgRemote, pgSize, pgPage, pgAll, pgMore, pgErr>>
    /\ UNCHANGED <<retryVars, passVars, opVars>>

NextPages ==
    \/ RestFetchPage
    \/ RestPageFails
    \/ GraphBatchFails
    \/ GraphNestedPage
    \/ GraphFollowUp
    \/ GraphFollowUpFails

SpecPages == InitPages /\ [][NextPages]_vars
-----------------------------------------------------------------------------
(***************************************************************************)
(* The rate-limit monitor of SyncRepository observed alone: reset instants *)
(* that lie before, at, near and far beyond the clock are put into         *)
(* rateLimitChan, the monitor drains them one by one and sleeps.           *)
(***************************************************************************)
ResetInstants == {0, 1, 2, 3, 29, 31, 32, 901, 902, 903, 7200}

InitMonitor ==
    InitPass /\ workers = MaxWorkers /\ RetryIdle /\ OpIdle /\ PageIdle

\* sync.go 177: the monitor goroutine is started
MonitorSpawn ==
    /\ monPc = "none"
    /\ monPc' = "recv"
    /\ UNCHANGED <<envVars, storeVars, coordVars, chanVars, workerVars, monWake,
                   histVars, retryVars, opVars, pageVars>>

\* sync.go 139-144: a worker offers the reset instant of a rate-limit error
\* to rateLimitChan, whose capacity is the worker count (sync.go 116); the
\* instant is dropped when the buffer is full
MonitorSignal ==
    /\ monPc # "none"
    /\ ~rateLimitClosed
    /\ \E reset \in ResetInstants :
         rateLimitChan' = IF Len(rateLimitChan) < workers
                          THEN Append(rateLimitChan, reset)
                          ELSE rateLimitChan
    /\ UNCHANGED <<envVars, storeVars, coordVars, issuesChan, issuesClosed,
                   errorsChan, errorsClosed, rateLimitClosed, processed,
                   workerVars, monVars, histVars, retryVars, opVars, pageVars>>

\* sync.go 211: close(rateLimitChan)
MonitorChanClose ==
    /\ monPc # "none"
    /\ ~rateLimitClosed
    /\ rateLimitClosed' = TRUE
    /\ UNCHANGED <<envVars, storeVars, coordVars, issuesChan, issuesClosed,
                   errorsChan, errorsClosed, rateLimitChan, processed,
                   workerVars, monVars, histVars, retryVars, opVars, pageVars>>

NextMonitor ==
    \/ MonitorSpawn
    \/ MonitorSignal
    \/ MonitorChanClose
    \/ MonitorReceive
    \/ MonitorWake

SpecMonitor == InitMonitor /\ [][NextMonitor]_vars

-----------------------------------------------------------------------------
(***************************************************************************)
(* Properties of SyncRepository (checked under Spec)                       *)
(***************************************************************************)

\* the checkpoint row of the repository, as the next pass will read it
Checkpoint == GetLastSyncTime(tblSyncMetadata, fullName)

\* the numbers of the issues of the changed-set of the pass
Fetched == {issues[k].number : k \in DOMAIN issues}

\* the issue of the changed-set that has number n
FetchedIssue(n) == issues[CHOOSE k \in DOMAIN issues : issues[k].number = n]

\* the row SaveIssue writes for a fetched issue
IssueRow(gh) == [ConvertGitHubIssue(gh) EXCEPT !.repository_id = RemoteRepository.id]

\* everything processIssue stores for issue n of the changed-set is there
FullyStored(n) ==
    LET gh == FetchedIssue(n) IN
    /\ RemoteUser(gh.user) \in tblUsers
    /\ IssueRow(gh) \in tblIssues
    /\ \A k \in DOMAIN IssueLabels(gh) :
         LET label == ConvertGitHubLabel(IssueLabels(gh)[k]) IN
         /\ label \in tblLabels
         /\ [issue_id |-> gh.id, label_id |-> label.id] \in tblIssueLabels
    /\ \A k \in DOMAIN IssueComments(n) :
         LET c == IssueComments(n)[k] IN
         /\ RemoteUser(CommentAuthor(c)) \in tblUsers
         /\ ConvertGitHubComment(c, gh.id) \in tblComments

\* the updated_at the store holds for issue n (0: no row)
StoredVersion(n) ==
    IF \E r \in tblIssues : r.number = n
    THEN (CHOOSE r \in tblIssues : r.number = n).updated_at
    ELSE 0

\* the only failure of the pass is the comment fetch of issue j
OnlyCommentsFailed(j) == faults = {<<"comments", j>>} /\ ~ctxDone

\* C1: partial-failure isolation.  In a pass in which GetIssueComments
\* failed for exactly one issue of the changed-set, and nothing else failed
\* and the context was not cancelled, once SyncRepository has returned:
\* every other issue of the changed-set was processed to the end and all
\* its rows are stored, exactly one error was counted, the checkpoint was
\* written with an instant of this pass, and SyncRepository returned nil.
C1_PartialFailureIsolation ==
    \A j \in Issues :
        (coordPc = "done" /\ OnlyCommentsFailed(j))
        => /\ result = NilErr
           /\ errorCount = 1
           /\ ckptWrites = 1
           /\ Checkpoint >= passStart
           /\ j \in Fetched /\ j \notin completed
           /\ \A n \in Fetched \ {j} : n \in completed /\ FullyStored(n)

\* a pass over two issues ended after the comment fetch of issue 1 failed
C1_Witness ==
    /\ coordPc = "done"
    /\ OnlyCommentsFailed(1)
    /\ Fetched = {1, 2}
    /\ completed = {2}
    /\ FullyStored(2)
    /\ result = NilErr

\* the join of the pass has been passed
Joined == joinedAt > 0

\* C2: checkpoint advance.  The checkpoint statement is executed at most
\* once in a pass; a pass that passed the join and returned executed it
\* exactly once; in a non-empty pass it is executed only after the join,
\* when every worker has returned (so no processIssue writes after it);
\* and the instant it stores is not earlier than the join nor than the
\* start of the pass.  Nothing here depends on the number of issues that
\* failed.
C2_CheckpointAdvance ==
    /\ ckptWrites <= 1
    /\ (coordPc = "done" /\ Joined) => ckptWrites = 1
    /\ (ckptWrites = 1 /\ Len(issues) > 0)
       => /\ Joined
          /\ \A w \in Workers : wPc[w] \in {"none", "exit"}
          /\ <<"checkpoint", 0>> \notin faults
             => (Checkpoint >= joinedAt /\ Checkpoint >= passStart)

\* a pass over two issues, both of which failed, wrote the checkpoint
C2_Witness ==
    /\ coordPc = "done"
    /\ Len(issues) = 2
    /\ errorCount = 2
    /\ completed = {}
    /\ ckptWrites = 1
    /\ result = NilErr
    /\ Checkpoint >= joinedAt /\ Checkpoint >= passStart

\* no pass so far met a failure, an error or a cancellation
NeverFailed == ~everFailed /\ PassWasClean

\* C3: no silent data loss across runs.  When a pass has returned, no pass
\* so far has met a failure or a cancellation and at least one worker is
\* configured, every remote issue is either stored in its current version
\* or will be in the changed-set of the next pass (its updated_at is not
\* earlier than the checkpoint).
C3_NoSilentDataLoss ==
    (coordPc = "done" /\ NeverFailed /\ workers >= 1)
    => \A n \in Issues :
         \/ StoredVersion(n) = remoteUpdated[n]
         \/ remoteUpdated[n] >= Checkpoint

\* the step of SyncRepository that fetches the changed-set
FetchStep == coordPc = "getIssues" /\ coordPc' \in {"emptyCheckpoint", "spawn"}

SecondRunUnchanged ==
    /\ passNo >= 2
    /\ prevStable
    /\ ~remoteChanged
    /\ faults = {}
    /\ ~ctxDone

\* C5: idempotence of a pass.  In a pass that follows a pass without
\* failure, with the remote unchanged since that pass started and no
\* failure in this one, no statement changes a row of repositories, users,
\* issues, comments, labels or issue_labels, and the pass returns nil with
\* no per-issue error.
C5_Idempotence ==
    SecondRunUnchanged
    => /\ ~tablesChanged
       /\ coordPc = "done" => (result = NilErr /\ errorCount = 0)

\* the second pass wrote every issue again and changed nothing
C5_Witness ==
    /\ SecondRunUnchanged
    /\ coordPc = "done"
    /\ workers >= 1
    /\ savedIssues = Issues
    /\ completed = Issues
    /\ ~tablesChanged
    /\ \A n \in Issues : FullyStored(n)

-----------------------------------------------------------------------------
(***************************************************************************)
(* Properties of executeWithRetry (checked under SpecRetry)                *)
(***************************************************************************)

\* C6: the wrapped operation is invoked at most 5 times in one call of
\* executeWithRetry; a call whose 5 invocations all ended in a rate-limit
\* error and that was not cancelled returns the terminal error, which wraps
\* the last rate-limit error: errors.As on it yields the RateLimitError
\* with the reset instant of the last failure.
C6_RetryBound ==
    /\ attempts <= 5
    /\ (retryPc = "done" /\ attempts = 5 /\ IsRateLimit(lastErr) /\ retryErr # CtxErr)
          => /\ retryErr.wrapped
             /\ IsRateLimit(retryErr)
             /\ retryErr.ResetTime = lastErr.ResetTime
    /\ (retryPc = "done" /\ retryErr.wrapped)
          => (attempts = 5 /\ waits = 5 /\ IsRateLimit(lastErr))

C6_Witness ==
    /\ retryPc = "done"
    /\ attempts = 5
    /\ retryErr.wrapped
    /\ IsRateLimit(retryErr)
    /\ retryErr.ResetTime = lastErr.ResetTime

\* C7 as stated: the wait before a retry is
\* min(max(reset_instant - now, 30s) + 5s, 1 hour).
C7_WaitAsStated ==
    retryPc = "wait" =>
        waitTime = Min(Max(lastErr.ResetTime - clock, 30 * Second) + 5 * Second, 1 * Hour)

\* C7 amended: the wait before a retry is (reset_instant - now) + 5s,
\* capped at 1 hour, and 30s when the reset instant is already past; a
\* reset 10 minutes ahead gives a wait between 10m0s and 10m5s, a reset
\* more than 1 hour ahead gives exactly 1 hour, a reset less than 30
\* seconds ahead gives between 5 and 35 seconds.
C7_WaitAmended ==
    retryPc = "wait" =>
        LET d == lastErr.ResetTime - clock IN
        /\ d < 0 => waitTime = 30
        /\ (d >= 0 /\ d <= 3595) => waitTime = d + 5
        /\ d > 3595 => waitTime = 3600
        /\ d = 600 => (waitTime >= 600 /\ waitTime <= 605)
        /\ (d >= 0 /\ d < 30) => (waitTime >= 5 /\ waitTime < 35)

C7_Witness ==
    /\ retryPc = "wait"
    /\ lastErr.ResetTime - clock = 10
    /\ waitTime = 15

\* C8: an invocation that returns nil or an error that is not a rate-limit
\* error ends the call at once: executeWithRetry returns that same value,
\* after exactly one invocation since the last wait, with no wait and no
\* further invocation.
C8_NoRetryOfOtherErrors ==
    (attempts > 0 /\ ~IsRateLimit(lastErr)) =>
        /\ retryPc = "done"
        /\ retryErr = lastErr
        /\ attempts = waits + 1

C8_Witness ==
    /\ retryPc = "done"
    /\ lastErr = OtherErr
    /\ retryErr = OtherErr
    /\ attempts = 2
    /\ waits = 1

\* C9: when the context is cancelled while executeWithRetry waits between
\* attempts, or is cancelled when an attempt is about to start (the loop
\* head), the next step returns the context's error and the remote
\* operation is not invoked again.
C9_CancelStopsRetry ==
    [][ (retryCtxDone /\ retryPc \in {"check", "wait"}) =>
            (retryPc' = "done" /\ retryErr' = CtxErr /\ attempts' = attempts) ]_vars

C9_Witness ==
    /\ retryPc = "done"
    /\ retryErr = CtxErr
    /\ IsRateLimit(lastErr)
    /\ attempts = waits + 1
    /\ attempts >= 2


-----------------------------------------------------------------------------
(***************************************************************************)
(* Cancellation of a pass (checked under Spec)                             *)
(***************************************************************************)

\* C10: once the ambient context is cancelled, the dispatch loop of
\* SyncRepository puts no further issue into issuesChan and its next step
\* returns the context's error, and no worker starts processIssue for an
\* issue it takes from the channel.
C10_CancelStopsPass ==
    [][ctxDone =>
          /\ Len(issuesChan') <= Len(issuesChan)
          /\ started' \subseteq started
          /\ (coordPc = "send" /\ coordPc' # "send")
             => (coordPc' = "done" /\ result' = CtxErr)]_vars

-----------------------------------------------------------------------------
(***************************************************************************)
(* The worker pool, the set-up of a pass and the empty pass (under Spec)   *)
(***************************************************************************)

\* the number of worker goroutines SyncRepository started in this pass
PoolSize == Cardinality({w \in Workers : wPc[w] # "none"})

\* the workers have been started and SyncRepository has not returned
PoolStarted == coordPc \in {"send", "wait", "checkpoint"}

\* C11: worker-pool bound.  SetWorkers yields a count between 1 and 10 for
\* every argument, and in every pass the number of worker goroutines
\* SyncRepository started is between 1 and 10, whatever count the Syncer
\* was constructed with.
C11_WorkerPoolBound ==
    /\ \A n \in (0 - 1)..(WorkersCap + 1) : SetWorkers(n) \in 1..WorkersCap
    /\ PoolStarted => PoolSize \in 1..WorkersCap

\* the positions of SyncRepository before the changed-set is known
SetupPcs == {"getRepository", "saveOwner", "saveRepository",
             "getLastSyncTime", "getIssues"}

\* a failure was injected into a set-up step of the pass
SetupFault == \E f \in faults : f[1] \in {"setup", "page"}

\* no worker and no monitor was started in the pass
NothingStarted ==
    /\ \A w \in Workers : wPc[w] = "none"
    /\ monPc = "none"
    /\ started = {}

\* C12: fatal set-up errors abort the pass.  While SyncRepository is in its
\* set-up (GetRepository, saving the owner, SaveRepository, GetLastSyncTime,
\* GetIssues) no row of issues, comments, labels, issue_labels or
\* sync_metadata changes; a set-up step that fails is the last step of
\* SyncRepository, which returns an error with no changed-set kept (the
\* pages fetched before a failing page are dropped); and a pass in which a
\* set-up step failed has returned an error, started no worker and did not
\* execute the checkpoint statement.
C12_SetupErrorsAbort ==
    /\ [][(coordPc \in SetupPcs) =>
            /\ UNCHANGED <<tblIssues, tblComments, tblLabels, tblIssueLabels,
                           tblSyncMetadata>>
            /\ coordPc' = "done"
               => (result' # NilErr /\ Len(issues') = 0 /\ NothingStarted')]_vars
    /\ [](SetupFault =>
            /\ coordPc = "done"
            /\ result # NilErr
            /\ issues = <<>>
            /\ NothingStarted
            /\ ckptWrites = 0
            /\ savedIssues = {})

\* the second pass failed on the second page of its list request: the
\* rows and the checkpoint of the first pass are as they were
C12_Witness ==
    /\ passNo = 2
    /\ coordPc = "done"
    /\ faults = {<<"page", 2>>}
    /\ result = Wrap(OtherErr)
    /\ issues = <<>>
    /\ NothingStarted
    /\ Checkpoint = 1
    /\ ~tablesChanged
    /\ \A n \in Issues : IssueRow(GhIssue(n)) \in tblIssues

\* the step in which SyncRepository leaves the empty pass
EmptyPassStep == coordPc = "emptyCheckpoint" /\ coordPc' # "emptyCheckpoint"

\* C13: empty changed-set.  When GetIssues returns no issue the next step
\* of SyncRepository executes the checkpoint statement once, with the
\* instant the clock shows in that step, and returns: nil when the
\* statement succeeded, with the checkpoint row holding that instant; no
\* worker and no monitor is started.
C13_EmptyChangedSet ==
    /\ [][(FetchStep /\ Len(issues') = 0) => coordPc' = "emptyCheckpoint"]_vars
    /\ [][EmptyPassStep =>
            /\ Len(issues) = 0
            /\ coordPc' = "done"
            /\ ckptWrites = 0 /\ ckptWrites' = 1
            /\ NothingStarted'
            /\ <<"checkpoint", 0>> \notin faults'
               => /\ result' = NilErr
                  /\ GetLastSyncTime(tblSyncMetadata', fullName) = now'
                  /\ now' >= now]_vars
    /\ [](coordPc = "emptyCheckpoint" => NothingStarted)

\* the second pass found nothing changed since checkpoint 2, wrote
\* checkpoint 3 and returned nil
C13_Witness ==
    /\ passNo = 2
    /\ coordPc = "done"
    /\ lastSyncTime = 2
    /\ Len(issues) = 0
    /\ ckptWrites = 1
    /\ Checkpoint = 3
    /\ result = NilErr
    /\ NothingStarted

-----------------------------------------------------------------------------
(***************************************************************************)
(* processIssue, the workers and the monitor (checked under Spec)          *)
(***************************************************************************)

\* worker w takes a step of its own from position pc
WorkerLeaves(w, pc) == wPc[w] = pc /\ wPc'[w] # pc

\* what processIssue stores for issue gh before it asks for the comments
StoredBeforeComments(gh) ==
    /\ RemoteUser(gh.user) \in tblUsers
    /\ IssueRow(gh) \in tblIssues
    /\ <<"label", gh.number>> \notin faults
       => \A k \in DOMAIN IssueLabels(gh) :
            LET label == ConvertGitHubLabel(IssueLabels(gh)[k]) IN
            /\ label \in tblLabels
            /\ [issue_id |-> gh.id, label_id |-> label.id] \in tblIssueLabels

\* C14: a comment-fetch failure is local to the issue.  The step in which
\* GetIssueComments fails for the issue of a worker ends processIssue with
\* that error, at a moment when the author, the issue row and (unless a
\* label step failed) the labels and associations of the issue are stored;
\* no comment statement and no comment-author statement runs for that
\* issue in the pass; and the worker then puts exactly one error into
\* errorsChan, does not count the issue as completed, and goes back to
\* receive the next issue.
C14_CommentFetchFailureLocal ==
    /\ [][\A w \in Workers :
            (WorkerLeaves(w, "getComments")
             /\ wIssue[w].number \in fetchFailed' \ fetchFailed)
            => /\ wPc'[w] = "report"
               /\ wErr'[w] # NilErr
               /\ StoredBeforeComments(wIssue[w])
               /\ UNCHANGED <<tblUsers, tblComments>>]_vars
    /\ [][\A w \in Workers :
            (WorkerLeaves(w, "report") /\ wErr[w] # NilErr)
            => /\ Len(errorsChan') = Len(errorsChan) + 1
               /\ errorsChan'[Len(errorsChan')] = wErr[w]
               /\ wIssue[w].number \notin completed'
               /\ wPc'[w] = "recv"]_vars
    /\ [](fetchFailed \cap commentSteps = {})
    /\ []((coordPc = "done" /\ passNo = 1)
           => \A n \in fetchFailed :
                \A r \in tblComments : r.issue_id # GhIssue(n).id)

\* one worker: the comment fetch of issue 1 failed after its rows were
\* stored, no comment of issue 1 was written, the worker went on to issue
\* 2, and one error was counted
C14_Witness ==
    /\ workers = 1
    /\ passNo = 1
    /\ coordPc = "done"
    /\ fetchFailed = {1}
    /\ faults = {<<"comments", 1>>}
    /\ StoredBeforeComments(GhIssue(1))
    /\ tblComments = {}
    /\ completed = {2}
    /\ errorCount = 1

\* the only failures of the pass are label steps
OnlyLabelsFailed ==
    /\ faults # {}
    /\ \A f \in faults : f[1] = "label"
    /\ ~ctxDone

\* the comments of issue n of the changed-set are stored
CommentsStored(n) ==
    \A k \in DOMAIN IssueComments(n) :
        LET c == IssueComments(n)[k] IN
        /\ RemoteUser(CommentAuthor(c)) \in tblUsers
        /\ ConvertGitHubComment(c, GhIssue(n).id) \in tblComments

\* C15: label failures are skipped.  A step of the label loop (SaveLabel or
\* SaveIssueLabel) never ends processIssue and never sets its error; when
\* the step fails the loop goes on with the next label of the issue, or
\* with the comments after the last one; and a pass whose only failures
\* are label steps counts no error, completes every issue of the
\* changed-set and stores their comments.
C15_LabelFailuresSkipped ==
    /\ [][\A w \in Workers :
            (wPc[w] \in {"saveLabel", "saveIssueLabel"} /\ wPc'[w] # "none"
             /\ <<wPc[w], wIdx[w]>> # <<wPc'[w], wIdx'[w]>>)
            => /\ wErr'[w] = NilErr
               /\ wPc'[w] \in {"saveLabel", "saveIssueLabel", "getComments"}
               /\ events' > events
                  => /\ wIdx'[w] = wIdx[w] + 1
                     /\ wPc'[w] = IF wIdx[w] < Len(IssueLabels(wIssue[w]))
                                  THEN "saveLabel" ELSE "getComments"]_vars
    /\ []((coordPc = "done" /\ OnlyLabelsFailed /\ workers >= 1)
           => /\ errorCount = 0
              /\ result = NilErr
              /\ completed = Fetched
              /\ \A n \in Fetched : CommentsStored(n))

\* SaveLabel failed for the first label of issue 1: the second label, its
\* association and the comments of the issue are stored, no error counted
C15_Witness ==
    /\ passNo = 1
    /\ coordPc = "done"
    /\ faults = {<<"label", 1>>}
    /\ events = 1
    /\ ConvertGitHubLabel(1) \notin tblLabels
    /\ ConvertGitHubLabel(2) \in tblLabels
    /\ [issue_id |-> GhIssue(1).id, label_id |-> ConvertGitHubLabel(2).id]
          \in tblIssueLabels
    /\ CommentsStored(1)
    /\ completed = {1, 2}
    /\ errorCount = 0

\* C16: rate-limit signalling never blocks a worker.  A worker that holds
\* the result of processIssue can always take its next step: the signal
\* channel never holds more than s.workers reset instants, errorsChan has
\* room for the error; in that step a rate-limit error's reset instant is
\* appended to rateLimitChan when there is room and dropped when the
\* buffer is full, no other error changes rateLimitChan, and the worker
\* goes back to receive.
C16_SignalNeverBlocks ==
    /\ [](Len(rateLimitChan) <= workers)
    /\ [](\A w \in Workers : wPc[w] = "report" => ENABLED WorkerReport(w))
    /\ [][\A w \in Workers :
            WorkerLeaves(w, "report")
            => /\ wPc'[w] = "recv"
               /\ rateLimitChan' =
                    IF ~IsRateLimit(wErr[w]) THEN rateLimitChan
                    ELSE IF Len(rateLimitChan) = workers THEN rateLimitChan
                    ELSE Append(rateLimitChan, wErr[w].ResetTime)]_vars

\* one worker, both issues hit the rate limit, the monitor has not run:
\* the first reset instant is in the buffer, the second signal was dropped
\* and both errors were recorded
C16_Witness ==
    /\ workers = 1
    /\ passNo = 1
    /\ now = 1
    /\ monPc = "recv"
    /\ Len(errorsChan) = 2
    /\ IsRateLimit(errorsChan[1]) /\ IsRateLimit(errorsChan[2])
    /\ rateLimitChan = <<errorsChan[1].ResetTime>>
    /\ processed = 2
    /\ wPc[1] = "recv"

\* every worker has returned
AllWorkersExited == \A w \in Workers : w <= workers => wPc[w] = "exit"

C18_SuspensionObservesCancel ==
    /\ [][(ctxDone /\ monPc = "sleep" /\ now < monWake /\ monPc' = "recv")
          => now' < monWake]_vars
    /\ []((ctxDone /\ coordPc = "send" /\ sendIdx <= Len(issues))
           => ENABLED (CoordSend /\ coordPc' = "done" /\ result' = CtxErr))

-----------------------------------------------------------------------------
(***************************************************************************)
(* The upserts on any store state (checked under SpecStore)                *)
(***************************************************************************)

\* the rows of tbl that have the id of the argument of the last operation
RowsOfId(tbl) == {r \in tbl : r.id = opArg[1]}

\* C19: user upsert never errors on existing data.  After SaveUser was
\* applied to any store state and any user (id, login, avatar), it has
\* returned no error and the users table holds exactly one row for that
\* id, with the login and avatar given (also when the login was stored
\* under another id).
C19_SaveUserNeverErrors ==
    opName = "SaveUser"
    => /\ ~opErr
       /\ RowsOfId(tblUsers) =
            {[id |-> opArg[1], login |-> opArg[2], avatar_url |-> opArg[3]]}

\* C20: label upsert never errors on existing data.  After SaveLabel was
\* applied to any store state and any label (id, name, color), it has
\* returned no error and the label's id, and the labels table holds
\* exactly one row for that id, with the name and color given (also when
\* another id was stored with the same name and color).
C20_SaveLabelNeverErrors ==
    opName = "SaveLabel"
    => /\ ~opErr
       /\ opId = opArg[1]
       /\ RowsOfId(tblLabels) =
            {[id |-> opArg[1], name |-> opArg[2], color |-> opArg[3]]}

-----------------------------------------------------------------------------
(***************************************************************************)
(* Concurrent writers, the association table and deletions                 *)
(***************************************************************************)

\* the step leaves exactly the row u for the id of u in users and leaves
\* every row of another id as it was
UserUpserted(u) ==
    /\ {r \in tblUsers' : r.id = u.id} = {u}
    /\ {r \in tblUsers' : r.id # u.id} = {r \in tblUsers : r.id # u.id}

\* C21: concurrent upserts of one key are safe.  Whatever the other workers
\* have written or are about to write, a SaveUser statement of a worker (for
\* the author of its issue or of a comment) that no failure is injected
\* into succeeds, leaves exactly one users row with the id written, equal
\* to the user written by that call, and changes no row of another id; at
\* every moment users holds at most one row per id.
C21_ConcurrentUserUpserts ==
    /\ [][\A w \in Workers :
            (WorkerLeaves(w, "saveUser") /\ events' = events)
            => /\ wPc'[w] = "saveIssue"
               /\ UserUpserted(RemoteUser(wIssue[w].user))]_vars
    /\ [][\A w \in Workers :
            (WorkerLeaves(w, "saveCommentUser") /\ events' = events)
            => /\ wPc'[w] = "saveComment"
               /\ UserUpserted(RemoteUser(CommentAuthor(
                      IssueComments(wIssue[w].number)[wIdx[w]])))]_vars
    /\ [](\A a, b \in tblUsers : a.id = b.id => a = b)

\* two workers inside processIssue at once: one has just written user 2 as
\* the author of a comment of issue 1, the other has written user 2 as the
\* author of issue 2; no statement failed and users holds one row for 2
C21_Witness ==
    /\ passNo = 1
    /\ faults = {}
    /\ \E w1, w2 \in Workers :
         /\ w1 # w2
         /\ wPc[w1] = "saveComment" /\ wIssue[w1].number = 1 /\ wIdx[w1] = 1
         /\ wPc[w2] = "saveIssue" /\ wIssue[w2].number = 2
    /\ {r \in tblUsers : r.id = RemoteUser(2).id} = {RemoteUser(2)}

\* the pair of the last SaveIssueLabel call
OpPair == [issue_id |-> opArg[1], label_id |-> opArg[2]]

\* C22: association insert is idempotent.  SaveIssueLabel never returns an
\* error and the pair is stored after it; a call for a pair the store
\* already holds leaves the issue_labels table as it was, a call for a new
\* pair adds that pair and nothing else; the table, keyed by the pair,
\* holds one row for it however often the call is repeated.
C22_IssueLabelIdempotent ==
    /\ [](opName = "SaveIssueLabel" => (~opErr /\ OpPair \in tblIssueLabels))
    /\ [][StoreSaveIssueLabel
          => /\ (opArg'[3] = 1) = (OpPair' \in tblIssueLabels)
             /\ opArg'[3] = 1 => tblIssueLabels' = tblIssueLabels
             /\ tblIssueLabels' = tblIssueLabels \cup {OpPair'}
             /\ Cardinality({r \in tblIssueLabels' : r = OpPair'}) = 1]_vars

\* SaveIssueLabel was called for a pair that was stored already, next to
\* another pair, and returned no error
C22_Witness ==
    /\ opName = "SaveIssueLabel"
    /\ opArg[3] = 1
    /\ ~opErr
    /\ OpPair \in tblIssueLabels
    /\ Cardinality(tblIssueLabels) = 2

\* the keys present in each table (the primary key of its schema)
KeysPresent ==
    [repositories |-> {r.id : r \in tblRepositories},
     users |-> {r.id : r \in tblUsers},
     issues |-> {r.id : r \in tblIssues},
     comments |-> {r.id : r \in tblComments},
     labels |-> {r.id : r \in tblLabels},
     issue_labels |-> {<<r.issue_id, r.label_id>> : r \in tblIssueLabels},
     sync_metadata |-> {r.repository : r \in tblSyncMetadata}]

\* C23: nothing is ever deleted.  No step of any pass takes a key out of a
\* table: in every table the set of keys present after the step contains
\* the set present before it.  In particular the rows of a label that was
\* taken off an issue remotely stay in the store.
C23_NothingDeleted ==
    [][\A tbl \in DOMAIN KeysPresent :
          KeysPresent[tbl] \subseteq KeysPresent'[tbl]]_vars

\* issue 1 was stored with two labels in the first pass, lost its second
\* label in a remote edit, and was stored again without it in the second
\* pass: the label and its association are still in the store
C23_Witness ==
    /\ passNo = 2
    /\ coordPc = "done"
    /\ faults = {}
    /\ 1 \in completed
    /\ IssueLabels(GhIssue(1)) = <<1>>
    /\ IssueRow(GhIssue(1)) \in tblIssues
    /\ ConvertGitHubLabel(2) \in tblLabels
    /\ [issue_id |-> GhIssue(1).id, label_id |-> ConvertGitHubLabel(2).id]
          \in tblIssueLabels

-----------------------------------------------------------------------------
(***************************************************************************)
(* The absent checkpoint and the first full pass                           *)
(***************************************************************************)

\* sync_metadata holds no row for the repository
NoCheckpointRow == \A r \in tblSyncMetadata : r.repository # fullName

\* C24: an absent checkpoint means full history.  With no checkpoint row
\* for the repository, GetLastSyncTime returns the zero instant and no
\* error (the pass goes on to GetIssues unless a failure is injected into
\* the statement), and the changed-set the pass then fetches holds every
\* issue of the repository.
C24_AbsentCheckpointFullHistory ==
    /\ [][(coordPc = "getLastSyncTime" /\ coordPc' # coordPc
           /\ NoCheckpointRow /\ events' = events)
          => /\ coordPc' = "getIssues"
             /\ result' = NilErr
             /\ lastSyncTime' = 0]_vars
    /\ [][(FetchStep /\ NoCheckpointRow)
          => /\ Fetched' = Issues
             /\ Len(issues') = NumIssues]_vars

\* the first pass failed before its checkpoint; the second pass finds no
\* row, asks with the zero instant and has fetched both issues
C24_Witness ==
    /\ passNo = 2
    /\ coordPc = "spawn"
    /\ NoCheckpointRow
    /\ lastSyncTime = 0
    /\ Fetched = Issues

-----------------------------------------------------------------------------
(***************************************************************************)
(* The identifier normalizer (checked under SpecId)                        *)
(***************************************************************************)

\* the unsigned reading of the input, as a decimal string
UnsignedDecimal(id) == FormatUint(ToUint(id))

\* C25: identifier round-trip.  The result of HandleGitHubID for a signed
\* input identifies the unsigned value whose bits the input holds: read as
\* an unsigned value it has the decimal representation of that value, and
\* no other input of the signed range yields the same result.
C25_IdRoundTrip ==
    opName = "HandleGitHubID"
    => /\ UnsignedDecimal(opId) = UnsignedDecimal(opArg[1])
       /\ \A other \in SignedRange :
            other # opArg[1] => HandleGitHubID(other) # opId

\* what the remote held for the changed-set the pass fetched: the comments,
\* the distinct labels and the issue-label pairs of the fetched issues
RemoteComments ==
    {<<n, k>> \in Fetched \X (1..2) : k \in DOMAIN IssueComments(n)}
RemoteLabels ==
    UNION {{IssueLabels(issues[i])[k] : k \in DOMAIN IssueLabels(issues[i])}
           : i \in DOMAIN issues}
RemotePairs ==
    UNION {{<<issues[i].number, IssueLabels(issues[i])[k]>>
              : k \in DOMAIN IssueLabels(issues[i])} : i \in DOMAIN issues}

\* C26: first full sync content.  When the first pass over an empty store
\* has returned nil with no failure of any kind and no cancellation, the
\* changed-set was the whole repository and the store holds exactly one
\* issue row per issue, one comment row per comment, one label row per
\* distinct label and one association row per issue-label pair of what was
\* fetched, and one checkpoint row whose instant is not before the instant
\* the pass started.
C26_FirstFullSyncContent ==
    (passNo = 1 /\ coordPc = "done" /\ PassWasClean)
    => /\ Fetched = Issues
       /\ Cardinality(tblIssues) = NumIssues
       /\ Cardinality(tblComments) = Cardinality(RemoteComments)
       /\ Cardinality(tblLabels) = Cardinality(RemoteLabels)
       /\ Cardinality(tblIssueLabels) = Cardinality(RemotePairs)
       /\ Cardinality(tblSyncMetadata) = 1
       /\ ~NoCheckpointRow
       /\ Checkpoint >= passStart

\* a first pass without any failure over two issues, one of them with two
\* comments and, after a remote edit that preceded the pass, one label:
\* the store holds 2 issues, 2 comments, 1 label, 1 pair and a checkpoint
C26_Witness ==
    /\ passNo = 1
    /\ coordPc = "done"
    /\ PassWasClean
    /\ Cardinality(tblIssues) = 2
    /\ Cardinality(tblComments) = 2
    /\ Cardinality(tblLabels) = 1
    /\ Cardinality(tblIssueLabels) = 1
    /\ Checkpoint >= passStart
    /\ passStart > 1

\* the same content with at least one worker started
FirstFullSyncWithWorkers == workers >= 1 => C26_FirstFullSyncContent

\* C27: the identifier normalizer is the identity where it cannot convert.
\* HandleGitHubID always returns a value of the signed range; it returns a
\* non-negative input unchanged; and for a negative input whose unsigned
\* decimal form ParseInt cannot read as a signed value it returns the
\* original negative input.
C27_IdentityWhereNoConversion ==
    opName = "HandleGitHubID"
    => /\ opId \in SignedRange
       /\ opArg[1] >= 0 => opId = opArg[1]
       /\ (opArg[1] < 0 /\ ParseInt(FormatUint(ToUint(opArg[1]))).err)
          => opId = opArg[1]

-----------------------------------------------------------------------------
(***************************************************************************)
(* Dispatch, termination and the goroutines of a pass (C29 under SpecLive) *)
(***************************************************************************)

\* SyncRepository has written the checkpoint at the end of a non-empty
\* pass and returned nil
NonEmptyPassReturnedNil ==
    /\ coordPc = "done"
    /\ result = NilErr
    /\ ckptWrites = 1
    /\ Len(issues) > 0

\* C28: checkpoint only after full processing.  Whenever SyncRepository has
\* written the checkpoint at the end of a non-empty pass and returned nil,
\* processIssue has been invoked for every issue of the changed-set and no
\* issue is left in the work channel, whatever the worker count and
\* whenever the context was cancelled.
C28_CheckpointAfterFullProcessing ==
    NonEmptyPassReturnedNil
    => /\ started = Fetched
       /\ issuesChan = <<>>

\* the same statement for a pass that started at least one worker
CheckpointAfterProcessingWithWorkers ==
    workers >= 1 => C28_CheckpointAfterFullProcessing

\* worker w is inside processIssue or holds its result
Processing(w) == wPc[w] \notin {"none", "recv", "exit"}

\* the dispatch of the pass is under way with at least one worker
Dispatching == coordPc = "send" /\ workers >= 1

\* C29: exactly-once dispatch.  With at least one worker: a worker that
\* starts processIssue takes the issue at the head of the work channel, an
\* issue no worker has started in this pass, and no two workers ever hold
\* the same issue; a pass that is not cancelled and has closed the channel
\* and joined its workers has started every issue of the changed-set; and
\* a dispatch that has begun leads, unless the context is cancelled, to
\* the return of SyncRepository with every worker terminated and the work
\* channel closed and drained (no deadlock).
C29_ExactlyOnceDispatch ==
    /\ [][\A w \in Workers :
            (wPc[w] = "recv" /\ wPc'[w] = "saveUser")
            => /\ wIssue'[w] = Head(issuesChan)
               /\ wIssue'[w].number \notin started
               /\ started' = started \cup {wIssue'[w].number}
               /\ issuesChan' = Tail(issuesChan)]_vars
    /\ [](\A w1, w2 \in Workers :
            (w1 # w2 /\ Processing(w1) /\ Processing(w2))
            => wIssue[w1].number # wIssue[w2].number)
    /\ []((Joined /\ ~ctxDone /\ workers >= 1) => started = Fetched)
    /\ (Dispatching
        ~> (ctxDone \/ (coordPc = "done" /\ AllWorkersExited
                        /\ issuesClosed /\ issuesChan = <<>>
                        /\ started = Fetched)))

\* two workers, no cancellation: each of them processed one of the two
\* issues, both terminated and SyncRepository returned nil
C29_Witness ==
    /\ workers = 2
    /\ ~ctxDone
    /\ coordPc = "done"
    /\ result = NilErr
    /\ AllWorkersExited
    /\ issuesClosed /\ issuesChan = <<>>
    /\ started = Fetched
    /\ Cardinality(Fetched) = 2
    /\ processed = 2

\* a goroutine waits to receive from a channel that is empty and open
WorkerBlocked(w) == wPc[w] = "recv" /\ issuesChan = <<>> /\ ~issuesClosed
MonitorBlocked == monPc = "recv" /\ rateLimitChan = <<>> /\ ~rateLimitClosed

\* SyncRepository has returned and no worker is inside processIssue or
\* about to report: nothing will be sent to or closed on a channel of
\* this pass any more
ReturnedAndQuiet ==
    /\ coordPc = "done"
    /\ \A w \in Workers : wPc[w] \in {"none", "recv", "exit"}

\* C30: no goroutine outlives its pass forever.  Once SyncRepository has
\* returned, for whatever reason, and the workers still running have come
\* back to their receive, no worker and no monitor is left waiting on an
\* empty channel that was not closed: each of them can still take a step
\* or has terminated.
C30_NoGoroutineLeak ==
    ReturnedAndQuiet
    => /\ \A w \in Workers : ~WorkerBlocked(w)
       /\ ~MonitorBlocked

\* the same statement for a pass that returned nil
NoLeakAfterSuccess == result = NilErr => C30_NoGoroutineLeak

-----------------------------------------------------------------------------
(***************************************************************************)
(* Error aggregation, channel closes and the order of the per-issue steps  *)
(***************************************************************************)

\* the issues of the pass whose processIssue was invoked and did not
\* return nil (once no worker is inside processIssue any more)
FailedIssues == started \ completed

\* C31: error aggregation.  After the join the error count of the pass
\* equals the number of issues whose processIssue returned an error; a
\* worker that reports an error puts exactly one error into errorsChan,
\* a worker that reports success none; errorsChan, whose capacity is the
\* size of the changed-set, always has room for the error of a worker
\* that holds one; and no issue that was started, failed or not, is
\* started again in the pass.
C31_ErrorAggregation ==
    /\ [](Joined => errorCount = Cardinality(FailedIssues))
    /\ [](\A w \in Workers :
            (wPc[w] = "report" /\ wErr[w] # NilErr)
            => Len(errorsChan) < Len(issues))
    /\ [][\A w \in Workers :
            WorkerLeaves(w, "report")
            => Len(errorsChan') =
                 Len(errorsChan) + (IF wErr[w] # NilErr THEN 1 ELSE 0)]_vars
    /\ [][\A w \in Workers :
            (wPc[w] = "recv" /\ wPc'[w] = "saveUser")
            => wIssue'[w].number \notin started]_vars

\* processIssue was invoked for both issues and failed for both: the pass
\* joined its workers, counted two errors and returned nil
C31_Witness ==
    /\ coordPc = "done"
    /\ Joined
    /\ result = NilErr
    /\ started = {1, 2}
    /\ completed = {}
    /\ errorCount = 2
    /\ Cardinality(faults) = 2

\* C32: no send on a closed channel.  errorsChan and rateLimitChan are
\* closed only when every worker has returned, issuesChan only when the
\* coordinator has sent every issue and left the dispatch loop; and no
\* step of any goroutine puts a value into a channel that is closed.
C32_NoSendOnClosed ==
    /\ [](errorsClosed => AllWorkersExited)
    /\ [](rateLimitClosed => AllWorkersExited)
    /\ [](issuesClosed => (coordPc # "send" /\ sendIdx > Len(issues)))
    /\ [][Len(errorsChan') > Len(errorsChan) => ~errorsClosed]_vars
    /\ [][Len(rateLimitChan') > Len(rateLimitChan) => ~rateLimitClosed]_vars
    /\ [][Len(issuesChan') > Len(issuesChan) => ~issuesClosed]_vars

\* two workers each sent the error of their issue to errorsChan; the
\* coordinator sent both issues, closed issuesChan, and closed the other
\* two channels after both workers had returned
C32_Witness ==
    /\ workers = 2
    /\ coordPc = "done"
    /\ issuesClosed /\ errorsClosed /\ rateLimitClosed
    /\ AllWorkersExited
    /\ sendIdx = 3
    /\ processed = 2
    /\ errorCount = 2

\* the moves processIssue can make from one step to the next, in the order
\* of its code
StepOrder ==
    {<<"recv", "saveUser">>, <<"saveUser", "saveIssue">>,
     <<"saveIssue", "saveLabel">>, <<"saveIssue", "getComments">>,
     <<"saveLabel", "saveIssueLabel">>, <<"saveLabel", "saveLabel">>,
     <<"saveLabel", "getComments">>, <<"saveIssueLabel", "saveLabel">>,
     <<"saveIssueLabel", "getComments">>,
     <<"getComments", "saveCommentUser">>,
     <<"saveCommentUser", "saveComment">>,
     <<"saveComment", "saveCommentUser">>}

\* the steps from which processIssue can return
ReturnPoints == {"saveUser", "saveIssue", "getComments", "saveCommentUser",
                 "saveComment"}

\* worker w is at a step of processIssue that follows the issue row
AfterIssueRow(w) ==
    wPc[w] \in {"saveLabel", "saveIssueLabel", "getComments",
                "saveCommentUser", "saveComment"}

-----------------------------------------------------------------------------
(***************************************************************************)
(* The paged fetches (checked under SpecPages)                             *)
(***************************************************************************)

\* C34: paged fetch completeness and termination.  GetIssues and
\* GetIssueComments ask for the pages 1, 2, ... in order, each page being
\* added behind the ones before it; while the loop runs every page so far
\* was full, so at most floor(n / size) requests have been made; and a
\* call that returns without error has made floor(n / size) + 1 requests
\* and returns the n items of the remote list in remote order, each once.
C34_PagedFetchComplete ==
    pgName \in RestCalls
    => /\ pgPc = "loop"
          => /\ pgPage = pgReqs + 1
             /\ pgReqs * pgSize <= pgRemote
             /\ pgAll = SubSeq(Items(pgRemote), 1, pgReqs * pgSize)
       /\ (pgPc = "returned" /\ ~pgErr)
          => /\ pgReqs = (pgRemote \div pgSize) + 1
             /\ pgPage = pgReqs
             /\ pgAll = Items(pgRemote)

\* five items in pages of two: three requests, the last page partial
C34_Witness ==
    /\ pgName = "GetIssueComments"
    /\ pgPc = "returned"
    /\ ~pgErr
    /\ pgRemote = 5
    /\ pgSize = 2
    /\ pgReqs = 3
    /\ pgAll = <<1, 2, 3, 4, 5>>
-----------------------------------------------------------------------------
\* C35: for a rate-limit error, handleRateLimit takes the reset instant
\* from the error's embedded reset time when that is in the future,
\* otherwise from the X-RateLimit-Reset response header when it is present
\* and parses, otherwise now + 1 hour; an error that is not a rate-limit
\* error is returned unchanged and nil stays nil.  Stated on every
\* invocation made by executeWithRetry: lastCall' is the raw outcome,
\* lastErr' what handleRateLimit made of it at the instant clock.
C35_ResetInstantPriority ==
    [][(attempts' = attempts + 1) =>
          /\ (lastCall'.raw = "nil") => (lastErr' = NilErr)
          /\ (lastCall'.raw = "other") => (lastErr' = OtherErr)
          /\ (lastCall'.raw = "ghratelimit") =>
               /\ IsRateLimit(lastErr')
               /\ (lastCall'.reset > clock) =>
                      (lastErr'.ResetTime = lastCall'.reset)
               /\ (lastCall'.reset <= clock /\ lastCall'.header.h = "unix") =>
                      (lastErr'.ResetTime = lastCall'.header.v)
               /\ (lastCall'.reset <= clock /\ lastCall'.header.h # "unix") =>
                      (lastErr'.ResetTime = clock + 1 * Hour)]_vars

\* an invocation whose error carried a reset in the future and a response
\* header naming another instant: the error's own reset was taken
C35_Witness ==
    /\ retryPc = "wait"
    /\ lastCall.raw = "ghratelimit"
    /\ lastCall.reset > clock
    /\ lastCall.header.h = "unix"
    /\ lastCall.header.v # lastCall.reset
    /\ lastErr.ResetTime = lastCall.reset
-----------------------------------------------------------------------------
\* the step drains one rate-limit signal
Drains == Len(rateLimitChan') < Len(rateLimitChan)

\* C36 as stated: for every rate-limit signal it drains, the monitor sleeps
\* once, for a duration that is at least 30 seconds and at most 15 minutes
\* (30 seconds when the reset instant is already past, 15 minutes when it
\* is further away than that).
C36_SleepAsStated ==
    [][Drains =>
          LET until == Head(rateLimitChan) - now'
              sleep == monWake' - now'
          IN  /\ monPc = "recv" /\ monPc' = "sleep"
              /\ sleep >= 30 * Second
              /\ sleep <= 15 * Minute
              /\ (until < 0) => (sleep = 30 * Second)
              /\ (until > 15 * Minute) => (sleep = 15 * Minute)]_vars

\* C36 amended: for every rate-limit signal it drains, the monitor sleeps
\* once, for the time until the reset instant: 30 seconds when the reset
\* instant is already past, 15 minutes when it is further away than that,
\* and otherwise exactly the remaining time, which is less than 30 seconds
\* (down to 0) for a reset less than 30 seconds ahead.  The sleep is not
\* ended before its duration is over, and the monitor drains nothing
\* while it sleeps.
C36_SleepAmended ==
    /\ [][Drains =>
            LET until == Head(rateLimitChan) - now'
                sleep == monWake' - now'
            IN  /\ monPc = "recv" /\ monPc' = "sleep"
                /\ rateLimitChan' = Tail(rateLimitChan)
                /\ sleep >= 0
                /\ sleep <= 15 * Minute
                /\ (until < 0) => (sleep = 30 * Second)
                /\ (until > 15 * Minute) => (sleep = 15 * Minute)
                /\ (until >= 0 /\ until <= 15 * Minute) => (sleep = until)]_vars
    /\ [][(monPc = "sleep") => ~Drains]_vars
    /\ [][(monPc = "sleep" /\ monPc' # "sleep") => now' >= monWake]_vars

\* the monitor has drained a reset instant 28 seconds ahead and sleeps for
\* 28 seconds
C36_Witness ==
    /\ monPc = "sleep"
    /\ monWake - now = 28
    /\ monWake = 29
-----------------------------------------------------------------------------
\* the row of table tbl for the (repository, number) of issue row in
RowFor(tbl, in) ==
    CHOOSE r \in tbl : r.repository_id = in.repository_id /\ r.number = in.number

\* C37: SaveIssue on a (repository, number) that already has a row replaces
\* title, body, state, updated_at, closed_at, author and pull-request flag
\* with the incoming values, leaves the row's id, created_at, repository
\* and number unchanged, and does not change the number of issue rows; it
\* does so whether or not the incoming updated_at is newer than the stored
\* one.  Every other row is left as it was and the call returns no error.
C37_IssueUpsertFrame ==
    (opName = "SaveIssue" /\ opArg[2] # NoRow) =>
        LET in == opArg[1]
            old == opArg[2]
            new == RowFor(tblIssues, in)
        IN  /\ ~opErr
            /\ Cardinality({r \in tblIssues : r.repository_id = in.repository_id
                                              /\ r.number = in.number}) = 1
            /\ new.content.title = in.content.title
            /\ new.content.body = in.content.body
            /\ new.content.state = in.content.state
            /\ new.content.closed_at = in.content.closed_at
            /\ new.content.is_pull_request = in.content.is_pull_request
            /\ new.updated_at = in.updated_at
            /\ new.user_id = in.user_id
            /\ new.id = old.id
            /\ new.created_at = old.created_at
            /\ new.repository_id = old.repository_id
            /\ new.number = old.number
            /\ Cardinality(tblIssues) = opArg[3]
            /\ \A r \in tblIssues : r # new =>
                 ~(r.repository_id = in.repository_id /\ r.number = in.number)

\* an issue was saved over a stored row that was newer and differed in
\* every column: the incoming values replaced the stored ones, the row's
\* id and created_at stayed, and another row is stored beside it
C37_Witness ==
    /\ opName = "SaveIssue"
    /\ opArg[2] # NoRow
    /\ opArg[1].updated_at < opArg[2].updated_at
    /\ opArg[1].id # opArg[2].id
    /\ opArg[1].created_at # opArg[2].created_at
    /\ opArg[1].content # opArg[2].content
    /\ opArg[1].user_id # opArg[2].user_id
    /\ RowFor(tblIssues, opArg[1]).updated_at = opArg[1].updated_at
    /\ RowFor(tblIssues, opArg[1]).id = opArg[2].id
    /\ Cardinality(tblIssues) = 2
-----------------------------------------------------------------------------
\* the checkpoint rows of repository name
CheckpointRows(name) == {r \in tblSyncMetadata : r.repository = name}

\* C38: over any sequence of passes on one repository (clock
\* non-decreasing), the stored checkpoint instant never moves backwards,
\* there is at most one checkpoint row per repository full name, and a pass
\* on one repository never changes another repository's checkpoint.
C38_CheckpointMonotone ==
    /\ [][\A name \in RepoNames :
            GetLastSyncTime(tblSyncMetadata', name)
                >= GetLastSyncTime(tblSyncMetadata, name)]_vars
    /\ [](\A name \in RepoNames : Cardinality(CheckpointRows(name)) <= 1)
    /\ [][(opName' = "UpdateLastSyncTime") =>
            \A name \in RepoNames \ {opArg'[1]} :
                CheckpointRows(name)' = CheckpointRows(name)]_vars

\* a pass on o/r has written its checkpoint for the second time, later than
\* the first, while o/q keeps the checkpoint an earlier pass on it wrote
C38_Witness ==
    /\ opName = "UpdateLastSyncTime"
    /\ ~opErr
    /\ opArg[1] = fullName
    /\ opArg[3] > 0
    /\ opArg[2] > opArg[3]
    /\ GetLastSyncTime(tblSyncMetadata, fullName) = opArg[2]
    /\ GetLastSyncTime(tblSyncMetadata, "o/q") > 0
    /\ Cardinality(tblSyncMetadata) = 2

\* the first two parts in the passes of SyncRepository itself, where o/r is
\* the only repository: its checkpoint never moves backwards and has at
\* most one row
CheckpointMonotoneInPasses ==
    /\ [][Checkpoint' >= Checkpoint]_vars
    /\ [](Cardinality(CheckpointRows(fullName)) <= 1)

\* C39: graph strategy comment completeness.  When fetchIssuesBatch has
\* returned an issue without error, the comment list of the issue holds
\* every remote comment of the issue exactly once, in order: the nested
\* page followed by all follow-up pages; a follow-up query that failed
\* has not been passed over with a shortened list.
C39_GraphCommentsComplete ==
    (pgName = GraphCall /\ pgPc = "returned" /\ ~pgErr)
    => /\ pgAll = Items(pgRemote)
       /\ ~pgWarned

\* the same statement for the calls in which no follow-up query failed
GraphCommentsCompleteUnlessWarned ==
    (pgName = GraphCall /\ pgPc = "returned" /\ ~pgErr /\ ~pgWarned)
    => pgAll = Items(pgRemote)
-----------------------------------------------------------------------------
\* C40: in executeWithRetry every rate-limited attempt is followed by
\* exactly one wait, and the retry counter is checked only after that wait;
\* a call that exhausts its retries has therefore made 5 attempts and 5
\* waits, the last wait coming just before the terminal error is returned;
\* the retry counter never exceeds 5.  A wait that the context's
\* cancellation cuts short is a wait that was entered and not completed:
\* waits counts the completed ones.
C40_WaitsPerRetryLoop ==
    \* a rate-limited attempt leads into the wait, any other attempt returns
    /\ [][(attempts' = attempts + 1) =>
            IF IsRateLimit(lastErr')
            THEN retryPc' = "wait" /\ retryCount' = retryCount
            ELSE retryPc' = "done"]_vars
    \* one wait for each rate-limited attempt, none without one
    /\ [](retryPc = "wait" => (IsRateLimit(lastErr) /\ attempts = waits + 1))
    /\ [](retryPc \in {"check", "call"} => attempts = waits)
    /\ [](waits <= attempts /\ attempts <= waits + 1)
    \* the counter moves, and is compared with maxRetries, only when a wait
    \* has elapsed
    /\ [][(retryCount' # retryCount) =>
            /\ retryPc = "wait"
            /\ waits' = waits + 1
            /\ retryCount' = retryCount + 1
            /\ attempts' = attempts]_vars
    /\ [](retryCount = waits)
    \* the terminal error is returned by the step that ends the fifth wait
    /\ [][(retryErr'.wrapped /\ ~retryErr.wrapped) =>
            /\ retryPc = "wait" /\ retryPc' = "done"
            /\ waits' = maxRetries /\ attempts' = maxRetries
            /\ clock' = clock + waitTime]_vars
    /\ []((retryPc = "done" /\ retryErr.wrapped) =>
            (attempts = maxRetries /\ waits = maxRetries))
    /\ [](retryCount <= maxRetries)

\* a call has returned the terminal error after 5 attempts and 5 completed
\* waits, the fifth wait ending at the instant of the return
C40_Witness ==
    /\ retryPc = "done"
    /\ retryErr.wrapped
    /\ attempts = maxRetries
    /\ waits = maxRetries
    /\ retryCount = maxRetries
    /\ waitTime > 0
    /\ clock >= StartClock + maxRetries * 5 * Second

=============================================================================
